---- MODULE Spec2Model ----
(***************************************************************************)
(* TTFL tracker: the in-memory application cache (services/cache.py) with  *)
(* its triggers (app.py) and readers (routers/snapshot.py), the            *)
(* retry_on_timeout decorator and the provider call sites of the daily     *)
(* update script, and the score backfill (scripts/daily_update.py).        *)
(*                                                                         *)
(* The parts are separate state machines, each with its specification:     *)
(*   Spec          the web process: cache loads, clear() and the durable   *)
(*                 rows changing under it, operations one after another    *)
(*   SpecReaders   the same, with a get_snapshot request running in its    *)
(*                 own worker thread beside a load                         *)
(*   SpecRetry     one external fetch of the script, from call to return   *)
(*   SpecBackfill  runs of populate_ttfl_scores, one after another,        *)
(*                 against the same provider data                          *)
(*   SpecInjuries  runs of update_player_injuries, one after another       *)
(*   SpecMain      one run of scripts/daily_update.py: main() and its four *)
(*                 phases sharing one session                              *)
(*   SpecScore     calculate_ttfl_score called with a box score line       *)
(*   SpecAverages  batch_calculate_averages called over stored histories   *)
(*   SpecResume    runs of populate_ttfl_scores that may be stopped midway  *)
(*   SpecSync      runs of the four phases in any order, one at a time,    *)
(*                 the provider's data changing between them               *)
(***************************************************************************)
EXTENDS Integers, Sequences, FiniteSets, TLC

VARIABLES
    db,          \* durable rows: [teams, games, players], and scores for the script
    dbWrites,    \* number of row changes applied so far (bounded)
    app_cache,   \* the AppCache singleton: its five indexes and `loaded`
    lpc,         \* position of the thread executing load_schedule
    caller,      \* who called load_schedule: "startup" | "refresh" | "none"
    l_games,     \* local `games` of load_schedule
    l_players,   \* local `players` of load_schedule
    l_i,         \* index of the grouping loop in progress
    pre,         \* app_cache as it was when the current/last load was called
    outcome,     \* how the last load_schedule call ended: "none" | "ok" | "raised"
    response,    \* what the caller of load_schedule handed back
    started,     \* startup_event has run
    SessionLocal,  \* models/database.py: "sessionmaker", or "None" without DATABASE_URL
    startup_exc, \* the exception that left startup_event, or None
    rpc,         \* position of the get_snapshot request
    r_obs,       \* what get_snapshot has read so far
    r_whole,     \* the complete cache values that existed while it ran
    \* --- one external fetch of the daily update script ---
    t_site,            \* the call site: which fetch function runs
    t_max_retries,     \* its max_retries
    t_base_delay,      \* its base_delay, in seconds
    t_attempt,         \* the loop variable `attempt`
    t_calls,           \* outcome of every request sent to the provider, in order
    t_invs,            \* outcome of every invocation of the wrapped function
    t_sleeps,          \* every backoff time.sleep(delay), in order
    t_last_exception,  \* the wrapper's local `last_exception`
    t_pc,              \* "run" | "returned" | "raised" ("off": no fetch)
    t_result,          \* what the fetch returned to the phase
    t_exc,             \* what the fetch raised to the phase
    \* --- populate_ttfl_scores ---
    b_pc,        \* position in populate_ttfl_scores ("off": the script is not run)
    b_run,       \* number of runs of the script started so far
    bf,          \* the locals of populate_ttfl_scores
    pending,     \* TTFLScore objects added to the session and not yet flushed
    ext_box,     \* provider: box score result per nba_game_id, once asked for
    ext_logs,    \* provider: game log result per nba_player_id, once asked for
    b_hist,      \* per returned run: dry_run, the returned tuple, the stored scores
    \* --- update_player_injuries ---
    i_pc,        \* position in update_player_injuries ("off": it is not run)
    i_run,       \* number of runs started so far
    i_pre,       \* the stored players when the current/last run started
    i_injuries,  \* the local `injuries` of the current/last run
    i_acc,       \* the state of the loop over the players when it ended
    i_result,    \* what the last run returned, or the exception it raised
    \* --- update_game_statuses ---
    g_pc,        \* position in update_game_statuses ("off": it is not run)
    g_run,       \* number of runs started so far
    g_acc,       \* its locals: dry_run, the schedule rows, the session's games
    g_result,    \* what the last run returned, or the exception it raised
    \* --- update_team_stats ---
    ts_pc,       \* position in update_team_stats ("off": it is not run)
    ts_run,      \* number of runs started so far
    ts_acc,      \* its locals: dry_run, team_stats, the session's teams
    ts_result,   \* what the last run returned, or the exception it raised
    \* --- main ---
    m_pc,        \* position of main(): a phase, "done", "exit0" | "exit1" ("off")
    m_args,      \* the parsed command line
    m_trace,     \* the phases main() has called, in order
    m_db0,       \* the durable rows when main() started
    u_result,    \* what update_injuries returned to main(), or None
    commits,     \* number of db.commit() calls that went through
    \* --- calculate_ttfl_score ---
    c_pc,        \* "idle" | "returned" | "compared" ("off": no call of its own)
    c_box,       \* the argument box_score
    c_score,     \* what the call returned
    c_cmp,       \* a second call: the field raised, the line and the result
    \* --- batch_calculate_averages ---
    a_pc,        \* "idle" | "returned" ("off": it is not called)
    a_today,     \* date.today(), as a day number
    a_ids,       \* the argument player_ids of the last call
    a_result,    \* what the last call returned
    \* --- scripts/populate_minutes.py ---
    pm_pc,       \* position in main() of populate_minutes ("off": it is not run)
    pm_run,      \* number of runs started so far
    pm,          \* its locals: the players to process and the loop index
    ext_min      \* provider: the game log minutes per nba_player_id, once asked for

\* the session factory and the fate of startup
bootVars == <<SessionLocal, startup_exc>>

cacheVars == <<db, dbWrites, app_cache, lpc, caller, l_games, l_players, l_i,
               pre, outcome, response, started, bootVars>>
readerVars == <<rpc, r_obs, r_whole>>

retryVars == <<t_site, t_max_retries, t_base_delay, t_attempt, t_calls, t_invs,
               t_sleeps, t_last_exception, t_pc, t_result, t_exc>>

backfillVars == <<b_pc, b_run, bf, pending, ext_box, ext_logs, b_hist>>

\* the web process without the durable rows
webVars == <<dbWrites, app_cache, lpc, caller, l_games, l_players, l_i, pre,
             outcome, response, started, bootVars, readerVars>>

\* the web process, and the daily update script
appVars == <<cacheVars, readerVars>>
injuryVars == <<i_pc, i_run, i_pre, i_injuries, i_acc, i_result>>

statusVars == <<g_pc, g_run, g_acc, g_result>>
statsVars == <<ts_pc, ts_run, ts_acc, ts_result>>
mainVars == <<m_pc, m_args, m_trace, m_db0, u_result>>
dailyVars == <<mainVars, statusVars, statsVars, commits>>
scoreVars == <<c_pc, c_box, c_score, c_cmp>>
avgVars == <<a_pc, a_today, a_ids, a_result>>
minVars == <<pm_pc, pm_run, pm, ext_min>>
scriptVars == <<retryVars, backfillVars, injuryVars, dailyVars, scoreVars,
                avgVars, minVars>>

vars == <<appVars, scriptVars>>

----------------------------------------------------------------------------
(* Bounds of the model *)

\* number of changes to the durable rows in one behaviour
MaxDbWrites == 2

\* the same, in behaviours where a get_snapshot request runs beside the loads
MaxDbWritesReaders == 1

\* number of runs of the daily update script in one behaviour
MaxRuns == 2

\* number of runs of update_player_injuries in one behaviour
MaxInjuryRuns == 2

\* runs of update_game_statuses and of update_team_stats in a row
MaxStatusRuns == 2
MaxStatsRuns == 2

\* the largest count a field of a box score line is varied to
MaxStat == 2

\* largest max_retries a decorated function is declared with
MaxRetries == 4

\* retry_on_timeout's defaults, and the arguments the script passes
DefaultMaxRetries == 3
DefaultBaseDelay == 5
ScriptBaseDelay == 10

TeamIds == {1, 2}
GameIds == {1, 2}
PlayerIds == {1, 2}
Dates == {1, 2}

----------------------------------------------------------------------------
(* Python dicts and lists *)

EmptyDict == <<>>

\* Python's None, where a row could stand
None == [none |-> TRUE]

DictGet(d, k, default) == IF k \in DOMAIN d THEN d[k] ELSE default

DictSet(d, k, v) == [x \in (DOMAIN d) \cup {k} |-> IF x = k THEN v ELSE d[x]]

Values(d) == {d[k] : k \in DOMAIN d}

Elems(s) == {s[i] : i \in 1..Len(s)}

----------------------------------------------------------------------------
(* Durable rows (models/__init__.py) *)

\* nba_player_id is unique and not null
NbaPlayerId(pid) == 10 + pid

InitialDb ==
    [teams   |-> [t \in TeamIds |-> [id |-> t, wins |-> 0]],
     games   |-> [g \in GameIds |->
                     [id |-> g, game_date |-> 1,
                      home_team_id |-> 1, away_team_id |-> 2]],
     players |-> [p \in PlayerIds |->
                     [id |-> p, nba_player_id |-> NbaPlayerId(p),
                      team_id |-> 1, is_active |-> (p = 1)]]]


\* db.query(Model).all(): the rows of a table. The queries carry no ORDER BY;
\* the rows are taken in primary-key order, as the tables' key index gives them.
QueryAll(table) == [i \in 1..Cardinality(DOMAIN table) |-> table[i]]

\* The daily update script or a provisioning run changes one durable row:
\* team stats, a rescheduled game, a traded or deactivated player.
RowChanges(d) ==
    {[d EXCEPT !.teams[t].wins = 1 - @] : t \in TeamIds}
    \cup {[d EXCEPT !.games[g].game_date = dt] : g \in GameIds, dt \in Dates}
    \cup {[d EXCEPT !.players[p].team_id = t] : p \in PlayerIds, t \in TeamIds}
    \cup {[d EXCEPT !.players[p].is_active = ~@] : p \in PlayerIds}

----------------------------------------------------------------------------
(* AppCache (services/cache.py) *)

\* AppCache.__init__
EmptyCache ==
    [games_by_date     |-> EmptyDict,
     teams_by_id       |-> EmptyDict,
     players_by_id     |-> EmptyDict,
     players_by_nba_id |-> EmptyDict,
     players_by_team   |-> EmptyDict,
     loaded            |-> FALSE]

\* {team.id: team for team in teams}
TeamsById(teams) ==
    [k \in {teams[i].id : i \in DOMAIN teams} |->
        teams[CHOOSE i \in DOMAIN teams :
                 teams[i].id = k /\ \A j \in DOMAIN teams : teams[j].id = k => j <= i]]

\* {p.id: p for p in players}
PlayersById(players) ==
    [k \in {players[i].id : i \in DOMAIN players} |->
        players[CHOOSE i \in DOMAIN players :
                   players[i].id = k
                   /\ \A j \in DOMAIN players : players[j].id = k => j <= i]]

\* the slip of keying the second index like the first: {p.id: p for p in players}
PlayersByNbaId_KeyedById(players) == PlayersById(players)

\* {p.nba_player_id: p for p in players}
PlayersByNbaId(players) ==
    [k \in {players[i].nba_player_id : i \in DOMAIN players} |->
        players[CHOOSE i \in DOMAIN players :
                   players[i].nba_player_id = k
                   /\ \A j \in DOMAIN players :
                          players[j].nba_player_id = k => j <= i]]

\* one pass of a grouping loop: if key not in d: d[key] = []; d[key].append(row)
GroupAppend(d, key, row) == DictSet(d, key, Append(DictGet(d, key, <<>>), row))

\* games_by_date after the first n passes of its loop over `games`
RECURSIVE GamesByDate(_, _)
GamesByDate(games, n) ==
    IF n = 0 THEN EmptyDict
    ELSE GroupAppend(GamesByDate(games, n - 1), games[n].game_date, games[n])

\* players_by_team after the first n passes of its loop over `players`
RECURSIVE PlayersByTeam(_, _)
PlayersByTeam(players, n) ==
    IF n = 0 THEN EmptyDict
    ELSE GroupAppend(PlayersByTeam(players, n - 1), players[n].team_id, players[n])

\* the cache a load_schedule call that runs to its end builds from rows d
FullLoad(d) ==
    [games_by_date     |-> GamesByDate(QueryAll(d.games), Len(QueryAll(d.games))),
     teams_by_id       |-> TeamsById(QueryAll(d.teams)),
     players_by_id     |-> PlayersById(QueryAll(d.players)),
     players_by_nba_id |-> PlayersByNbaId(QueryAll(d.players)),
     players_by_team   |-> PlayersByTeam(QueryAll(d.players),
                                         Len(QueryAll(d.players))),
     loaded            |-> TRUE]

get_games_for_date(c, target_date) == DictGet(c.games_by_date, target_date, <<>>)

get_team(c, team_id) == DictGet(c.teams_by_id, team_id, None)

get_player_by_id(c, player_id) == DictGet(c.players_by_id, player_id, None)

get_player_by_nba_id(c, nba_player_id) ==
    DictGet(c.players_by_nba_id, nba_player_id, None)

get_players_by_team(c, team_id, active_only) ==
    LET players == DictGet(c.players_by_team, team_id, <<>>)
    IN  IF active_only THEN SelectSeq(players, LAMBDA p : p.is_active) ELSE players


----------------------------------------------------------------------------
(* load_schedule, statement by statement, and its two callers (app.py) *)

\* A complete cache value comes to exist while get_snapshot runs.
Track(c) == r_whole' = IF rpc = "idle" THEN r_whole ELSE r_whole \cup {c}

\* refresh_cache's "success" body, computed from the cache after the load
\* the response that counts the dates where it should count the games
SuccessResponse_CountsDates(c) ==
    [status        |-> "success",
     games_count   |-> Cardinality(DOMAIN c.games_by_date),
     dates_count   |-> Cardinality(DOMAIN c.games_by_date),
     teams_count   |-> Cardinality(DOMAIN c.teams_by_id),
     players_count |-> Cardinality(DOMAIN c.players_by_id)]

SuccessResponse(c) ==
    LET dates == DOMAIN c.games_by_date
        count[S \in SUBSET dates] ==
            IF S = {} THEN 0
            ELSE LET d == CHOOSE x \in S : TRUE
                 IN  Len(c.games_by_date[d]) + count[S \ {d}]
    IN  [status        |-> "success",
         games_count   |-> count[dates],
         dates_count   |-> Cardinality(dates),
         teams_count   |-> Cardinality(DOMAIN c.teams_by_id),
         players_count |-> Cardinality(DOMAIN c.players_by_id)]

\* what the caller does with a load that returned
OnLoaded(who, c) ==
    IF who = "refresh" THEN SuccessResponse(c) ELSE [status |-> "ready"]

\* what the caller does with a load that raised in query `q`
OnRaised(who, q) ==
    IF who = "refresh"
    THEN [status |-> "error", message |-> q]
    ELSE [status |-> "warning", message |-> q]

\* startup_event, once, before any request: db = SessionLocal() ahead of the
\* try, then app_cache.load_schedule(db) inside it. Calling None raises
\* TypeError, which no handler of startup_event covers: startup fails.
StartupEvent ==
    /\ ~started
    /\ startup_exc = None
    /\ lpc = "idle"
    /\ IF SessionLocal = "None"
       THEN /\ startup_exc' = [type |-> "TypeError"]
            /\ UNCHANGED <<started, caller, lpc, pre, outcome, response>>
       ELSE /\ started' = TRUE
            /\ caller' = "startup"
            /\ lpc' = "teams"
            /\ pre' = app_cache
            /\ outcome' = "none"
            /\ response' = [status |-> "pending"]
            /\ UNCHANGED startup_exc
    /\ UNCHANGED <<scriptVars, SessionLocal, db, dbWrites, app_cache, l_games,
                   l_players, l_i, readerVars>>

\* POST /admin/refresh-cache: app_cache.load_schedule(db)
RefreshCache ==
    /\ started
    /\ lpc = "idle"
    /\ caller' = "refresh"
    /\ lpc' = "teams"
    /\ pre' = app_cache
    /\ outcome' = "none"
    /\ response' = [status |-> "pending"]
    /\ UNCHANGED <<scriptVars, bootVars, db, dbWrites, app_cache, l_games, l_players, l_i, started,
                   readerVars>>

\* teams = db.query(Team).all(); self.teams_by_id = {...}
LoadTeams ==
    /\ lpc = "teams"
    /\ LET teams == QueryAll(db.teams) IN
          app_cache' = [app_cache EXCEPT !.teams_by_id = TeamsById(teams)]
    /\ lpc' = "games"
    /\ UNCHANGED <<scriptVars, bootVars, db, dbWrites, caller, l_games, l_players, l_i, pre, outcome,
                   response, started, readerVars>>

\* games = db.query(Game)...all(); self.games_by_date = {}
LoadGames ==
    /\ lpc = "games"
    /\ LET games == QueryAll(db.games) IN
          /\ l_games' = games
          /\ lpc' = IF games = <<>> THEN "players" ELSE "group_games"
    /\ app_cache' = [app_cache EXCEPT !.games_by_date = EmptyDict]
    /\ l_i' = 1
    /\ UNCHANGED <<scriptVars, bootVars, db, dbWrites, caller, l_players, pre, outcome, response,
                   started, readerVars>>

\* one pass of: for game in games: self.games_by_date[game.game_date].append(game)
GroupGame ==
    /\ lpc = "group_games"
    /\ app_cache' = [app_cache EXCEPT !.games_by_date =
                        GroupAppend(@, l_games[l_i].game_date, l_games[l_i])]
    /\ l_i' = l_i + 1
    /\ lpc' = IF l_i = Len(l_games) THEN "players" ELSE "group_games"
    /\ UNCHANGED <<scriptVars, bootVars, db, dbWrites, caller, l_games, l_players, pre, outcome,
                   response, started, readerVars>>

\* players = db.query(Player)...all()
LoadPlayers ==
    /\ lpc = "players"
    /\ LET players == QueryAll(db.players) IN l_players' = players
    /\ lpc' = "by_id"
    /\ UNCHANGED <<scriptVars, bootVars, db, dbWrites, app_cache, caller, l_games, l_i, pre, outcome,
                   response, started, readerVars>>

\* self.players_by_id = {p.id: p for p in players}
IndexById ==
    /\ lpc = "by_id"
    /\ app_cache' = [app_cache EXCEPT !.players_by_id = PlayersById(l_players)]
    /\ lpc' = "by_nba_id"
    /\ UNCHANGED <<scriptVars, bootVars, db, dbWrites, caller, l_games, l_players, l_i, pre, outcome,
                   response, started, readerVars>>

\* self.players_by_nba_id = {p.nba_player_id: p for p in players}
IndexByNbaId ==
    /\ lpc = "by_nba_id"
    /\ app_cache' = [app_cache EXCEPT
                        !.players_by_nba_id = PlayersByNbaId(l_players)]
    /\ lpc' = "by_team"
    /\ UNCHANGED <<scriptVars, bootVars, db, dbWrites, caller, l_games, l_players, l_i, pre, outcome,
                   response, started, readerVars>>

\* self.players_by_team = {}
ResetByTeam ==
    /\ lpc = "by_team"
    /\ app_cache' = [app_cache EXCEPT !.players_by_team = EmptyDict]
    /\ l_i' = 1
    /\ lpc' = IF l_players = <<>> THEN "set_loaded" ELSE "group_players"
    /\ UNCHANGED <<scriptVars, bootVars, db, dbWrites, caller, l_games, l_players, pre, outcome,
                   response, started, readerVars>>

\* one pass of: for player in players: self.players_by_team[player.team_id].append(player)
GroupPlayer ==
    /\ lpc = "group_players"
    /\ app_cache' = [app_cache EXCEPT !.players_by_team =
                        GroupAppend(@, l_players[l_i].team_id, l_players[l_i])]
    /\ l_i' = l_i + 1
    /\ lpc' = IF l_i = Len(l_players) THEN "set_loaded" ELSE "group_players"
    /\ UNCHANGED <<scriptVars, bootVars, db, dbWrites, caller, l_games, l_players, pre, outcome,
                   response, started, readerVars>>

\* self.loaded = True, and the return to the caller
SetLoaded ==
    /\ lpc = "set_loaded"
    /\ app_cache' = [app_cache EXCEPT !.loaded = TRUE]
    /\ lpc' = "idle"
    /\ outcome' = "ok"
    /\ response' = OnLoaded(caller, app_cache')
    /\ Track(app_cache')
    /\ UNCHANGED <<scriptVars, bootVars, db, dbWrites, caller, l_games, l_players, l_i, pre, started,
                   rpc, r_obs>>

\* One of the three bulk queries raises; load_schedule has no handler, so the
\* exception leaves it at that statement and the caller's `except` takes it.
QueryRaises ==
    /\ lpc \in {"teams", "games", "players"}
    /\ lpc' = "idle"
    /\ outcome' = "raised"
    /\ response' = OnRaised(caller, lpc)
    /\ Track(app_cache)
    /\ UNCHANGED <<scriptVars, bootVars, db, dbWrites, app_cache, caller, l_games, l_players, l_i, pre,
                   started, rpc, r_obs>>

\* AppCache.clear()
Clear ==
    /\ lpc = "idle"
    /\ app_cache' = EmptyCache
    /\ outcome' = "none"
    /\ Track(EmptyCache)
    /\ UNCHANGED <<scriptVars, bootVars, db, dbWrites, lpc, caller, l_games, l_players, l_i, pre,
                   response, started, rpc, r_obs>>

\* a durable row changes (another process commits)
DbWrite(limit) ==
    /\ dbWrites < limit
    /\ \E d \in RowChanges(db) : d # db /\ db' = d
    /\ dbWrites' = dbWrites + 1
    /\ UNCHANGED <<scriptVars, bootVars, app_cache, lpc, caller, l_games, l_players, l_i, pre, outcome,
                   response, started, readerVars>>

----------------------------------------------------------------------------
(* get_snapshot (routers/snapshot.py): three reads of the shared cache *)

NoObs == [games_by_date |-> EmptyDict, players_by_id |-> EmptyDict,
          teams_by_id |-> EmptyDict]

\* requests are served once startup_event has returned
Serving == started /\ (caller # "startup" \/ lpc = "idle")

\* for games_list in app_cache.games_by_date.values(): ...
SnapshotReadGames ==
    /\ Serving
    /\ rpc = "idle"
    /\ r_obs' = [NoObs EXCEPT !.games_by_date = app_cache.games_by_date]
    /\ r_whole' = {IF lpc = "idle" THEN app_cache ELSE pre}
    /\ rpc' = "players"
    /\ UNCHANGED <<scriptVars, cacheVars>>

\* all_players = [p for p in app_cache.players_by_id.values() if p.is_active]
SnapshotReadPlayers ==
    /\ rpc = "players"
    /\ r_obs' = [r_obs EXCEPT !.players_by_id = app_cache.players_by_id]
    /\ rpc' = "teams"
    /\ UNCHANGED <<scriptVars, cacheVars, r_whole>>

\* what the request has read once it reads teams_by_id in this state
SnapshotObserved == [r_obs EXCEPT !.teams_by_id = app_cache.teams_by_id]

\* all_teams = list(app_cache.teams_by_id.values()); the response is built from
\* the three reads and sent, and the worker is free for the next request
SnapshotReadTeams ==
    /\ rpc = "teams"
    /\ rpc' = "idle"
    /\ r_obs' = NoObs
    /\ r_whole' = {}
    /\ UNCHANGED <<scriptVars, cacheVars>>

----------------------------------------------------------------------------
(* The daily update script: one external fetch and its retry policy        *)
(* (scripts/daily_update.py, services/nba_api.py, services/injuries.py)    *)

\* An exception message, as the list of its characters.
MsgReadTimeout == <<"R","e","a","d","T","i","m","e","o","u","t">>
MsgTimedOut    == <<"R","e","a","d"," ","t","i","m","e","d"," ","o","u","t">>
MsgTIMEOUT     == <<"T","I","M","E","O","U","T">>
MsgHttp500     == <<"H","T","T","P"," ","5","0","0">>
MsgTimeOut     == <<"t","i","m","e"," ","o","u","t">>

Messages == {MsgReadTimeout, MsgTimedOut, MsgTIMEOUT, MsgHttp500, MsgTimeOut}

UpperCase == <<"A","B","C","D","E","F","G","H","I","J","K","L","M",
               "N","O","P","Q","R","S","T","U","V","W","X","Y","Z">>
LowerCase == <<"a","b","c","d","e","f","g","h","i","j","k","l","m",
               "n","o","p","q","r","s","t","u","v","w","x","y","z">>

\* str.lower()
Lower(str) ==
    [i \in DOMAIN str |->
        IF \E k \in DOMAIN UpperCase : UpperCase[k] = str[i]
        THEN LowerCase[CHOOSE k \in DOMAIN UpperCase : UpperCase[k] = str[i]]
        ELSE str[i]]

\* sub in str
Contains(str, sub) ==
    \E i \in 1..(Len(str) - Len(sub) + 1) : SubSeq(str, i, i + Len(sub) - 1) = sub

\* the handler treating every failure as a timeout
IsTimeoutError_Always(error_str) == TRUE

\* "timeout" in error_str or "timed out" in error_str
IsTimeoutError(error_str) ==
    \/ Contains(error_str, <<"t","i","m","e","o","u","t">>)
    \/ Contains(error_str, <<"t","i","m","e","d"," ","o","u","t">>)

\* what one request to the provider can do: return rows, return none, raise
ProviderOutcomes ==
    {[kind |-> "data", msg |-> <<>>], [kind |-> "empty", msg |-> <<>>]}
    \cup {[kind |-> "error", msg |-> m] : m \in Messages}

\* 2 ** attempt
RECURSIVE Pow2(_)
Pow2(n) == IF n = 0 THEN 1 ELSE 2 * Pow2(n - 1)

\* range(max_retries) with one pass too many
Attempts_OneMore(max_retries) == 0..max_retries

\* range(max_retries)
Attempts(max_retries) == 0..(max_retries - 1)

\* the functions decorated with @retry_on_timeout
Decorated == {"fetch_schedule", "fetch_team_stats", "wrapped"}

\* the functions of nba_api.py that carry their own retry loop
SelfRetrying == {"get_game_box_scores", "get_player_stats"}

\* the external fetches of the four phases
PhaseSites == {"fetch_schedule", "get_game_box_scores", "get_player_stats",
               "fetch_team_stats", "scrape_espn_injuries"}

\* The requests one invocation of the decorated function sends, and how the
\* invocation ends.
\*   fetch_schedule (and any plain wrapped function): one request; its rows are
\*     returned, its exception leaves the function.
\*   fetch_team_stats: get_all_team_stats sends up to three requests (Base,
\*     Advanced, Opponent) inside one try whose handler returns [].
Invocations(site) ==
    IF site = "fetch_team_stats"
    THEN {[calls |-> cs,
           end   |-> IF \E i \in DOMAIN cs : cs[i].kind # "data"
                     THEN [kind |-> "empty", msg |-> <<>>]
                     ELSE [kind |-> "data", msg |-> <<>>]] :
             cs \in {c \in UNION {[1..n -> ProviderOutcomes] : n \in 1..3} :
                        /\ \A i \in 1..(Len(c) - 1) : c[i].kind # "error"
                        /\ Len(c) < 3 => c[Len(c)].kind = "error"}}
    ELSE {[calls |-> <<o>>, end |-> o] : o \in ProviderOutcomes}

\* One pass of the wrapper's for loop: the wrapped function is invoked; its
\* result is returned, a timeout is slept on and the loop goes on, any other
\* exception is re-raised. After the last pass comes `raise last_exception`.
WrapperAttempt ==
    /\ t_pc = "run"
    /\ t_site \in Decorated
    /\ t_attempt \in Attempts(t_max_retries)
    /\ \E inv \in Invocations(t_site) :
        LET n == Len(t_invs) + 1
            e == [inv |-> n, msg |-> inv.end.msg]
        IN  /\ t_calls' = t_calls \o inv.calls
            /\ t_invs' = Append(t_invs, inv.end)
            /\ IF inv.end.kind # "error"
               THEN /\ t_pc' = "returned"
                    /\ t_result' = [inv |-> n, value |-> inv.end.kind]
                    /\ UNCHANGED <<t_attempt, t_sleeps, t_last_exception, t_exc>>
               ELSE IF IsTimeoutError(Lower(inv.end.msg))
               THEN /\ t_last_exception' = e
                    /\ t_sleeps' = Append(t_sleeps, t_base_delay * Pow2(t_attempt))
                    /\ t_attempt' = t_attempt + 1
                    /\ IF t_attempt + 1 \in Attempts(t_max_retries)
                       THEN UNCHANGED <<t_pc, t_exc>>
                       ELSE t_pc' = "raised" /\ t_exc' = e
                    /\ UNCHANGED t_result
               ELSE /\ t_pc' = "raised"
                    /\ t_exc' = e
                    /\ UNCHANGED <<t_attempt, t_sleeps, t_last_exception, t_result>>
    /\ UNCHANGED <<appVars, scoreVars, avgVars, minVars, backfillVars, injuryVars, dailyVars, t_site, t_max_retries, t_base_delay>>

\* One pass of the loop in get_game_box_scores / get_player_stats: a request; a
\* timeout that is not the last attempt is slept on (2 ** attempt seconds) and
\* retried, any other failure returns [].
SelfRetryAttempt ==
    /\ t_pc = "run"
    /\ t_site \in SelfRetrying
    /\ t_attempt \in Attempts(t_max_retries)
    /\ \E o \in ProviderOutcomes :
        LET is_timeout == IsTimeoutError(Lower(o.msg))
            is_last_attempt == (t_attempt = t_max_retries - 1)
        IN  /\ t_calls' = Append(t_calls, o)
            /\ IF o.kind # "error"
               THEN /\ t_pc' = "returned"
                    /\ t_result' = [inv |-> 1, value |-> o.kind]
                    /\ UNCHANGED <<t_attempt, t_sleeps>>
               ELSE IF is_timeout /\ ~is_last_attempt
               THEN /\ t_sleeps' = Append(t_sleeps, Pow2(t_attempt))
                    /\ t_attempt' = t_attempt + 1
                    /\ UNCHANGED <<t_pc, t_result>>
               ELSE /\ t_pc' = "returned"
                    /\ t_result' = [inv |-> 1, value |-> "empty"]
                    /\ UNCHANGED <<t_attempt, t_sleeps>>
    /\ UNCHANGED <<appVars, scoreVars, avgVars, minVars, backfillVars, injuryVars, dailyVars, t_site, t_max_retries, t_base_delay, t_invs,
                   t_last_exception, t_exc>>

\* scrape_espn_injuries: one httpx.get inside a try whose handlers return []
ScrapeEspnInjuries ==
    /\ t_pc = "run"
    /\ t_site = "scrape_espn_injuries"
    /\ \E o \in ProviderOutcomes :
        /\ t_calls' = Append(t_calls, o)
        /\ t_result' = [inv |-> 1,
                         value |-> IF o.kind = "error" THEN "empty" ELSE o.kind]
    /\ t_pc' = "returned"
    /\ UNCHANGED <<appVars, scoreVars, avgVars, minVars, backfillVars, injuryVars, dailyVars, t_site, t_max_retries, t_base_delay, t_attempt,
                   t_invs,
                   t_sleeps, t_last_exception, t_exc>>

\* no fetch is running (the web process does none)
RetryOff ==
    /\ t_site = "none"
    /\ t_max_retries = 0
    /\ t_base_delay = 0
    /\ t_attempt = 0
    /\ t_calls = <<>>
    /\ t_invs = <<>>
    /\ t_sleeps = <<>>
    /\ t_last_exception = None
    /\ t_pc = "off"
    /\ t_result = None
    /\ t_exc = None

\* A phase reaches one of its fetches. The two decorated fetches of the script
\* are declared with max_retries=3, base_delay=10.0, the loops of nba_api.py
\* default to max_retries=3; "wrapped" is a function decorated with any
\* max_retries from 1 up and the default base_delay.
RetryInit ==
    /\ t_site \in PhaseSites \cup {"wrapped"}
    /\ t_max_retries \in (IF t_site = "wrapped" THEN 1..MaxRetries
                          ELSE IF t_site = "scrape_espn_injuries" THEN {1}
                          ELSE {DefaultMaxRetries})
    /\ t_base_delay = (IF t_site = "wrapped" THEN DefaultBaseDelay
                       ELSE IF t_site \in Decorated THEN ScriptBaseDelay
                       ELSE 1)
    /\ t_attempt = 0
    /\ t_calls = <<>>
    /\ t_invs = <<>>
    /\ t_sleeps = <<>>
    /\ t_last_exception = None
    /\ t_pc = "run"
    /\ t_result = None
    /\ t_exc = None

----------------------------------------------------------------------------
(* The daily update script: populate_ttfl_scores                           *)
(* (scripts/daily_update.py, services/ttfl.py, models)                     *)

\* who calls a phase: main() when it has reached the phase and not run it yet,
\* or, where main() is not modelled, a caller running it up to `max` times
CallerAllows(phase, run, max) ==
    \/ m_pc = "off" /\ run < max
    \/ m_pc = phase /\ run = 0

\* the dry_run argument a phase is called with
DryRuns == IF m_pc = "off" THEN BOOLEAN ELSE {m_args.dry_run}

NoPhaseRun == [kind |-> "none"]

\* Dates are days of October 2025: regular_season_start = date(2025, 10, 22)
RegularSeasonStart == 22

ScheduleDates == {21, 23, 25}

\* two stat lines: a full one and one with nothing but misses and a turnover
StatLineA == [PTS |-> 20, REB |-> 5, AST |-> 4, STL |-> 1, BLK |-> 1,
              TOV |-> 2, FGM |-> 8, FGA |-> 15, FG3M |-> 2, FG3A |-> 5,
              FTM |-> 2, FTA |-> 3]
StatLineB == [PTS |-> 0, REB |-> 0, AST |-> 0, STL |-> 0, BLK |-> 0,
              TOV |-> 1, FGM |-> 0, FGA |-> 3, FG3M |-> 0, FG3A |-> 1,
              FTM |-> 0, FTA |-> 0]

\* Python's None (or pandas' NaN) where an integer may stand: a stat of a box
\* score, a nullable score column
NoScore == -1

\* box_score.get(key, 0) or 0
StatOf(box_score, key) ==
    LET v == IF key \in DOMAIN box_score THEN box_score[key] ELSE 0
    IN  IF v = NoScore \/ v = 0 THEN 0 ELSE v

\* the misses are taken from the makes
calculate_ttfl_score_MissesReversed(box_score) ==
    LET pts  == StatOf(box_score, "PTS")
        reb  == StatOf(box_score, "REB")
        ast  == StatOf(box_score, "AST")
        stl  == StatOf(box_score, "STL")
        blk  == StatOf(box_score, "BLK")
        fgm  == StatOf(box_score, "FGM")
        fg3m == StatOf(box_score, "FG3M")
        ftm  == StatOf(box_score, "FTM")
        positive == pts + reb + ast + stl + blk + fgm + fg3m + ftm
        tov  == StatOf(box_score, "TOV")
        fga  == StatOf(box_score, "FGA")
        fg_missed == fgm - fga
        fg3a == StatOf(box_score, "FG3A")
        fg3_missed == fg3m - fg3a
        fta  == StatOf(box_score, "FTA")
        ft_missed == ftm - fta
        negative == tov + fg_missed + fg3_missed + ft_missed
    IN  positive - negative

\* a negative missed count is floored at zero
calculate_ttfl_score_Floored(box_score) ==
    LET pts  == StatOf(box_score, "PTS")
        reb  == StatOf(box_score, "REB")
        ast  == StatOf(box_score, "AST")
        stl  == StatOf(box_score, "STL")
        blk  == StatOf(box_score, "BLK")
        fgm  == StatOf(box_score, "FGM")
        fg3m == StatOf(box_score, "FG3M")
        ftm  == StatOf(box_score, "FTM")
        positive == pts + reb + ast + stl + blk + fgm + fg3m + ftm
        tov  == StatOf(box_score, "TOV")
        fga  == StatOf(box_score, "FGA")
        fg_missed == IF fga - fgm < 0 THEN 0 ELSE fga - fgm
        fg3a == StatOf(box_score, "FG3A")
        fg3_missed == IF fg3a - fg3m < 0 THEN 0 ELSE fg3a - fg3m
        fta  == StatOf(box_score, "FTA")
        ft_missed == IF fta - ftm < 0 THEN 0 ELSE fta - ftm
        negative == tov + fg_missed + fg3_missed + ft_missed
    IN  positive - negative

calculate_ttfl_score(box_score) ==
    LET pts  == StatOf(box_score, "PTS")
        reb  == StatOf(box_score, "REB")
        ast  == StatOf(box_score, "AST")
        stl  == StatOf(box_score, "STL")
        blk  == StatOf(box_score, "BLK")
        fgm  == StatOf(box_score, "FGM")
        fg3m == StatOf(box_score, "FG3M")
        ftm  == StatOf(box_score, "FTM")
        positive == pts + reb + ast + stl + blk + fgm + fg3m + ftm
        tov  == StatOf(box_score, "TOV")
        fga  == StatOf(box_score, "FGA")
        fg_missed == fga - fgm
        fg3a == StatOf(box_score, "FG3A")
        fg3_missed == fg3a - fg3m
        fta  == StatOf(box_score, "FTA")
        ft_missed == fta - ftm
        negative == tov + fg_missed + fg3_missed + ft_missed
    IN  positive - negative

\* the twelve fields calculate_ttfl_score reads
StatKeys == {"PTS", "REB", "AST", "STL", "BLK", "TOV", "FGM", "FGA", "FG3M",
             "FG3A", "FTM", "FTA"}

\* the line of the worked example
ExampleLine == [PTS |-> 30, REB |-> 10, AST |-> 5, STL |-> 2, BLK |-> 1,
                TOV |-> 3, FGM |-> 12, FGA |-> 20, FG3M |-> 3, FG3A |-> 8,
                FTM |-> 3, FTA |-> 4]

\* a dict without the key
Without(box_score, key) == [k \in DOMAIN box_score \ {key} |-> box_score[k]]

\* a dict with the key set
With(box_score, key, v) ==
    [k \in DOMAIN box_score \cup {key} |-> IF k = key THEN v ELSE box_score[k]]

\* the line with one field missing, None, or a small count
Variants(box_score) ==
    {box_score}
    \cup {Without(box_score, k) : k \in StatKeys}
    \cup {With(box_score, k, v) : k \in StatKeys, v \in {NoScore} \cup 0..MaxStat}

\* The lines calculate_ttfl_score is called with: the example, the two stat
\* lines of the backfill and the empty dict, each with up to two fields
\* missing, None or a small count.
BoxScoreLines ==
    UNION {Variants(b1) :
             b1 \in UNION {Variants(b) :
                              b \in {ExampleLine, StatLineA, StatLineB, <<>>}}}

NoCall == [key |-> "", box_score |-> <<>>, ttfl_score |-> 0]

\* ttfl_score = calculate_ttfl_score(box_score)
ScoreCall ==
    /\ c_pc = "idle"
    /\ c_score' = calculate_ttfl_score(c_box)
    /\ c_pc' = "returned"
    /\ UNCHANGED <<appVars, retryVars, backfillVars, injuryVars, dailyVars, avgVars, minVars,
                   c_box, c_cmp>>

\* a second call, with the line that has one of its counts higher by one
ScoreCallRaised ==
    /\ c_pc = "returned"
    /\ \E key \in StatKeys :
        LET box_score == With(c_box, key, StatOf(c_box, key) + 1)
        IN  c_cmp' = [key |-> key, box_score |-> box_score,
                      ttfl_score |-> calculate_ttfl_score(box_score)]
    /\ c_pc' = "compared"
    /\ UNCHANGED <<appVars, retryVars, backfillVars, injuryVars, dailyVars, avgVars, minVars,
                   c_box, c_score>>

\* calculate_ttfl_score is not called on its own
ScoreOff ==
    /\ c_pc = "off"
    /\ c_box = <<>>
    /\ c_score = 0
    /\ c_cmp = NoCall

ScoreInit ==
    /\ c_pc = "idle"
    /\ c_box \in BoxScoreLines
    /\ c_score = 0
    /\ c_cmp = NoCall

\* Game.nba_game_id, one per game
NbaGameId(gid) == 100 + gid

\* The durable rows the script may start from. Game 1 is final, on the 25th,
\* team 1 at home to team 2; game 2 is on any date, final or not, between
\* teams 1 and 3 or teams 3 and 4. Player 1 is active on team 1; player 2 is
\* on team 1 or 3, active or not. No score is stored yet.
ScheduleRows(date2, home2, away2, status2) ==
    (1 :> [id |-> 1, nba_game_id |-> NbaGameId(1), game_date |-> 25,
           home_team_id |-> 1, away_team_id |-> 2, status |-> "final"])
    @@ (2 :> [id |-> 2, nba_game_id |-> NbaGameId(2), game_date |-> date2,
              home_team_id |-> home2, away_team_id |-> away2,
              status |-> status2])

\* the schedule the provider publishes has a team in one game a day at most
OneGameADay(games) ==
    \A g1, g2 \in Values(games) :
        (g1.id # g2.id /\ g1.game_date = g2.game_date) =>
            {g1.home_team_id, g1.away_team_id}
                \cap {g2.home_team_id, g2.away_team_id} = {}

RosterRows(team2, active2) ==
    (1 :> [id |-> 1, nba_player_id |-> NbaPlayerId(1), team_id |-> 1,
           is_active |-> TRUE])
    @@ (2 :> [id |-> 2, nba_player_id |-> NbaPlayerId(2), team_id |-> team2,
              is_active |-> active2])

BackfillDbs ==
    {[teams   |-> [t \in 1..4 |-> [id |-> t, wins |-> 0]],
      games   |-> ScheduleRows(d, m[1], m[2], st),
      players |-> RosterRows(t2, a2),
      scores  |-> {}] :
        d \in ScheduleDates, m \in {<<1, 3>>, <<3, 4>>},
        st \in {"final", "scheduled"}, t2 \in {1, 3}, a2 \in BOOLEAN}

\* one player line of a box score, as get_game_box_scores builds it
BoxLine(nba_player_id, minutes, stats) ==
    [nba_player_id |-> nba_player_id, minutes |-> minutes] @@ stats

\* What the provider holds for the box score of a game: an error, no line, one
\* line, the same player twice, a player the roster does not know beside one
\* it knows, or alone.
BoxResults ==
    {[kind |-> "error", rows |-> <<>>],
     [kind |-> "data", rows |-> <<>>],
     [kind |-> "data", rows |-> <<BoxLine(11, 30, StatLineA)>>],
     [kind |-> "data", rows |-> <<BoxLine(11, 30, StatLineA),
                                  BoxLine(11, 0, StatLineB)>>],
     [kind |-> "data", rows |-> <<BoxLine(99, 12, StatLineA),
                                  BoxLine(12, 30, StatLineB)>>],
     [kind |-> "data", rows |-> <<BoxLine(99, 12, StatLineA)>>]}

\* one entry of a player's game log, as get_player_stats builds it
LogEntry(game_date, stats) == [game_date |-> game_date] @@ stats

\* What the provider holds for the game log of a player: an error, no entry,
\* one entry, two entries on one date, a pre-season entry before a season one,
\* entries whose date is missing or in another format.
LogResults ==
    {[kind |-> "error", rows |-> <<>>],
     [kind |-> "data", rows |-> <<>>],
     [kind |-> "data", rows |-> <<LogEntry("Oct 25, 2025", StatLineA)>>],
     [kind |-> "data", rows |-> <<LogEntry("Oct 25, 2025", StatLineA),
                                  LogEntry("Oct 25, 2025", StatLineB)>>],
     [kind |-> "data", rows |-> <<LogEntry("Oct 21, 2025", StatLineA),
                                  LogEntry("Oct 23, 2025", StatLineB)>>],
     [kind |-> "data", rows |-> <<LogEntry("", StatLineA),
                                  LogEntry("2025-10-23", StatLineA),
                                  LogEntry("Oct 23, 2025", StatLineA)>>]}

\* Within a whole run of the script the provider's answers are drawn from
\* fewer cases: for a box score an error, one line, the same player twice, or
\* a player the roster does not know beside one it knows; for a game log an error, one entry, or a pre-season entry before a season
\* one.
BoxResultsAsked ==
    IF m_pc = "off" THEN BoxResults
    ELSE {[kind |-> "error", rows |-> <<>>],
          [kind |-> "data", rows |-> <<BoxLine(11, 30, StatLineA)>>],
          [kind |-> "data", rows |-> <<BoxLine(11, 30, StatLineA),
                                       BoxLine(11, 0, StatLineB)>>],
          [kind |-> "data", rows |-> <<BoxLine(99, 12, StatLineA),
                                       BoxLine(12, 30, StatLineB)>>]}

LogResultsAsked ==
    IF m_pc = "off" THEN LogResults
    ELSE {[kind |-> "error", rows |-> <<>>],
          [kind |-> "data", rows |-> <<LogEntry("Oct 25, 2025", StatLineA)>>],
          [kind |-> "data", rows |-> <<LogEntry("Oct 21, 2025", StatLineA),
                                       LogEntry("Oct 23, 2025", StatLineB)>>]}

\* get_game_box_scores / get_player_stats: the rows, or [] when the request
\* failed for good
FetchedRows(result) == IF result.kind = "error" THEN <<>> ELSE result.rows

\* datetime.strptime(game_date_str, "%b %d, %Y").date(); any other text raises
\* ValueError
ParsableDates == {"Oct 21, 2025", "Oct 23, 2025", "Oct 25, 2025"}

strptime(game_date_str) ==
    IF game_date_str \in ParsableDates
    THEN [ok |-> TRUE,
          date |-> CASE game_date_str = "Oct 21, 2025" -> 21
                     [] game_date_str = "Oct 23, 2025" -> 23
                     [] game_date_str = "Oct 25, 2025" -> 25]
    ELSE [ok |-> FALSE, date |-> 0]

\* the locals of populate_ttfl_scores before its first statement
NoLocals ==
    [dry_run |-> FALSE, player_map |-> EmptyDict,
     games_needing_scores |-> <<>>, gi |-> 1, box_scores |-> <<>>, bi |-> 1,
     game_scores |-> 0, games_processed |-> 0, scores_added |-> 0,
     games_failed |-> <<>>, game_lookup |-> EmptyDict,
     relevant_players |-> <<>>, pj |-> 1, game_logs |-> <<>>, li |-> 1,
     fallback_scores |-> 0]

\* {p.nba_player_id: p.id for p in players}
PlayerMap(players) ==
    [n \in {players[i].nba_player_id : i \in DOMAIN players} |->
        players[CHOOSE i \in DOMAIN players :
                    /\ players[i].nba_player_id = n
                    /\ \A j \in DOMAIN players :
                          players[j].nba_player_id = n => j <= i].id]

\* .order_by(Game.game_date).all(): by date, games of one date by primary key
OrderByGameDate(rows) ==
    CHOOSE s \in [1..Cardinality(rows) -> rows] :
        /\ \A r \in rows : \E i \in DOMAIN s : s[i] = r
        /\ \A i, j \in DOMAIN s :
              i < j => \/ s[i].game_date < s[j].game_date
                       \/ /\ s[i].game_date = s[j].game_date
                          /\ s[i].id < s[j].id

\* final regular season games without any TTFL score
GamesNeedingScores(d) ==
    LET games_with_scores == {r.game_id : r \in d.scores}
    IN  OrderByGameDate({g \in Values(d.games) :
                            /\ g.status = "final"
                            /\ g.game_date >= RegularSeasonStart
                            /\ g.id \notin games_with_scores})

\* the lookup keyed by date alone
LookupKey_DateOnly(game_date, team_id) == <<game_date>>

\* the lookup keyed by team alone
LookupKey_TeamOnly(game_date, team_id) == <<team_id>>

\* the key of game_lookup: (game_date, team_id)
LookupKey(game_date, team_id) == <<game_date, team_id>>

\* game_lookup, filled from the first n failed games
RECURSIVE GameLookup(_, _)
GameLookup(games_failed, n) ==
    IF n = 0 THEN EmptyDict
    ELSE LET game == games_failed[n]
         IN  DictSet(DictSet(GameLookup(games_failed, n - 1),
                             LookupKey(game.game_date, game.home_team_id), game),
                     LookupKey(game.game_date, game.away_team_id), game)

\* active players of the teams that played in failed games
RelevantPlayers(d, games_failed) ==
    LET team_ids == UNION {{g.home_team_id, g.away_team_id} :
                              g \in Elems(games_failed)}
    IN  SelectSeq(QueryAll(d.players),
                  LAMBDA p : p.team_id \in team_ids /\ p.is_active)

\* db.query(TTFLScore).filter(player_id == ..., game_id == ...).first() is not
\* None. The session is made with autoflush=False: the query reads the stored
\* rows, not the objects added since the last commit.
Existing(d, player_id, game_id) ==
    \E r \in d.scores : r.player_id = player_id /\ r.game_id = game_id

\* uq_player_game: the INSERTs of a flush fail with IntegrityError when a new
\* row repeats the (player_id, game_id) of a stored row or of an earlier new row
ViolatesUnique(d, rows) ==
    \E i \in DOMAIN rows :
        \/ Existing(d, rows[i].player_id, rows[i].game_id)
        \/ \E j \in 1..(i - 1) : /\ rows[j].player_id = rows[i].player_id
                                 /\ rows[j].game_id = rows[i].game_id

\* a flush that replaces the stored rows of the games it writes
Flushed_ReplacesGame(d, rows) ==
    {r \in d.scores : \A i \in DOMAIN rows : rows[i].game_id # r.game_id}
        \cup {[id |-> Cardinality(d.scores) + i] @@ rows[i] : i \in DOMAIN rows}

\* the stored scores after the flush: each new row gets the next id
Flushed(d, rows) ==
    d.scores \cup {[id |-> Cardinality(d.scores) + i] @@ rows[i] :
                      i \in DOMAIN rows}

\* the return statement: (games_processed, scores_added, len(games_failed))
Returned(dry_run, games_processed, scores_added, errors, scores) ==
    b_hist' = Append(b_hist, [dry_run |-> dry_run,
                              ret |-> <<games_processed, scores_added, errors>>,
                              scores |-> scores])

\* main() calls populate_ttfl_scores(db, dry_run) with a new session. The
\* preamble runs up to the loop, or to `return 0, 0, 0` when no game is found.
BackfillStart ==
    /\ b_pc = "idle"
    /\ CallerAllows("scores", b_run, MaxRuns)
    /\ \E dry_run \in DryRuns :
        LET players == QueryAll(db.players)
            games_needing_scores == GamesNeedingScores(db)
        IN  /\ b_run' = b_run + 1
            /\ pending' = <<>>
            /\ IF games_needing_scores = <<>>
               THEN /\ Returned(dry_run, 0, 0, 0, db.scores)
                    /\ UNCHANGED <<b_pc, bf>>
               ELSE /\ b_pc' = "box"
                    /\ bf' = [NoLocals EXCEPT
                                !.dry_run = dry_run,
                                !.player_map = PlayerMap(players),
                                !.games_needing_scores = games_needing_scores]
                    /\ UNCHANGED b_hist
    /\ UNCHANGED <<db, webVars, scoreVars, avgVars, minVars, retryVars, injuryVars, dailyVars, ext_box, ext_logs>>

\* the test that lets every game through to the loop over its lines
NoBoxScores_Ignored(box_scores) == FALSE

\* `if not box_scores`, and the except branch before it: the game has no lines
NoBoxScores(box_scores) == box_scores = <<>>

\* box_scores = get_game_box_scores(game.nba_game_id) for the next game of the
\* loop; without lines the game joins games_failed
FetchBoxScores ==
    /\ b_pc = "box"
    /\ bf.gi <= Len(bf.games_needing_scores)
    /\ LET game == bf.games_needing_scores[bf.gi]
       IN  \E result \in (IF game.nba_game_id \in DOMAIN ext_box
                          THEN {ext_box[game.nba_game_id]}
                          ELSE BoxResultsAsked) :
            LET box_scores == FetchedRows(result)
            IN  /\ ext_box' = DictSet(ext_box, game.nba_game_id, result)
                /\ IF NoBoxScores(box_scores)
                   THEN /\ bf' = [bf EXCEPT !.games_failed = Append(@, game),
                                            !.gi = @ + 1]
                        /\ UNCHANGED b_pc
                   ELSE /\ bf' = [bf EXCEPT !.box_scores = box_scores,
                                            !.bi = 1, !.game_scores = 0]
                        /\ b_pc' = "lines"
    /\ UNCHANGED <<db, webVars, scoreVars, avgVars, minVars, retryVars, injuryVars, dailyVars, b_run, pending, ext_logs, b_hist>>

\* one pass of `for box_score in box_scores`
BoxScoreLine ==
    /\ b_pc = "lines"
    /\ bf.bi <= Len(bf.box_scores)
    /\ LET game == bf.games_needing_scores[bf.gi]
           box_score == bf.box_scores[bf.bi]
           nba_player_id == box_score.nba_player_id
           player_id == DictGet(bf.player_map, nba_player_id, 0)
           ttfl_score == calculate_ttfl_score(box_score)
           minutes == IF "minutes" \in DOMAIN box_score
                      THEN box_score.minutes ELSE 0
       IN  IF player_id = 0 \/ bf.dry_run \/ Existing(db, player_id, game.id)
           THEN /\ bf' = [bf EXCEPT !.bi = @ + 1]
                /\ UNCHANGED pending
           ELSE /\ pending' = Append(pending,
                                     [player_id |-> player_id,
                                      game_id |-> game.id,
                                      ttfl_score |-> ttfl_score,
                                      minutes |-> minutes])
                /\ bf' = [bf EXCEPT !.bi = @ + 1, !.game_scores = @ + 1]
    /\ UNCHANGED <<db, webVars, scoreVars, avgVars, minVars, retryVars, injuryVars, dailyVars, b_pc, b_run, ext_box, ext_logs, b_hist>>

\* after the lines of a game: db.commit() when rows were added, then the
\* counters. An IntegrityError of the commit leaves the function; main() rolls
\* the session back and exits.
CommitGame ==
    /\ b_pc = "lines"
    /\ bf.bi > Len(bf.box_scores)
    /\ IF ~bf.dry_run /\ bf.game_scores > 0
       THEN IF ViolatesUnique(db, pending)
            THEN /\ b_pc' = "raised"
                 /\ UNCHANGED <<db, bf, pending, commits>>
            ELSE /\ db' = [db EXCEPT !.scores = Flushed(db, pending)]
                 /\ commits' = commits + 1
                 /\ pending' = <<>>
                 /\ b_pc' = "box"
                 /\ bf' = [bf EXCEPT !.games_processed = @ + 1,
                                     !.scores_added = @ + bf.game_scores,
                                     !.gi = @ + 1]
       ELSE /\ b_pc' = "box"
            /\ bf' = [bf EXCEPT !.games_processed = @ + 1,
                                !.scores_added = @ + bf.game_scores,
                                !.gi = @ + 1]
            /\ UNCHANGED <<db, pending, commits>>
    /\ UNCHANGED <<webVars, scoreVars, avgVars, minVars, retryVars, injuryVars, mainVars, statusVars,
                   statsVars, b_run, ext_box, ext_logs, b_hist>>

\* the box score loop is over and games failed: game_lookup, team_ids and the
\* relevant_players query
StartFallback ==
    /\ b_pc = "box"
    /\ bf.gi > Len(bf.games_needing_scores)
    /\ bf.games_failed # <<>>
    /\ bf' = [bf EXCEPT
                !.game_lookup = GameLookup(bf.games_failed, Len(bf.games_failed)),
                !.relevant_players = RelevantPlayers(db, bf.games_failed),
                !.pj = 1,
                !.fallback_scores = 0]
    /\ b_pc' = "logs"
    /\ UNCHANGED <<db, webVars, scoreVars, avgVars, minVars, retryVars, injuryVars, dailyVars, b_run, pending, ext_box, ext_logs,
                   b_hist>>

\* game_logs = get_player_stats(player.nba_player_id) for the next relevant
\* player; without entries the loop goes on to the next player
FetchPlayerLogs ==
    /\ b_pc = "logs"
    /\ bf.pj <= Len(bf.relevant_players)
    /\ LET player == bf.relevant_players[bf.pj]
       IN  \E result \in (IF player.nba_player_id \in DOMAIN ext_logs
                          THEN {ext_logs[player.nba_player_id]}
                          ELSE LogResultsAsked) :
            LET game_logs == FetchedRows(result)
            IN  /\ ext_logs' = DictSet(ext_logs, player.nba_player_id, result)
                /\ IF game_logs = <<>>
                   THEN /\ bf' = [bf EXCEPT !.pj = @ + 1]
                        /\ UNCHANGED b_pc
                   ELSE /\ bf' = [bf EXCEPT !.game_logs = game_logs, !.li = 1]
                        /\ b_pc' = "entries"
    /\ UNCHANGED <<db, webVars, scoreVars, avgVars, minVars, retryVars, injuryVars, dailyVars, b_run, pending, ext_box, b_hist>>

\* one pass of `for game_log in game_logs`
GameLogEntry ==
    /\ b_pc = "entries"
    /\ bf.li <= Len(bf.game_logs)
    /\ LET player == bf.relevant_players[bf.pj]
           game_log == bf.game_logs[bf.li]
           game_date_str == IF "game_date" \in DOMAIN game_log
                            THEN game_log.game_date ELSE ""
           parsed == strptime(game_date_str)
           key == LookupKey(parsed.date, player.team_id)
           game == DictGet(bf.game_lookup, key, None)
       IN  IF \/ game_date_str = ""
              \/ ~parsed.ok
              \/ parsed.date < RegularSeasonStart
              \/ key \notin DOMAIN bf.game_lookup
              \/ bf.dry_run
              \/ Existing(db, player.id, game.id)
           THEN /\ bf' = [bf EXCEPT !.li = @ + 1]
                /\ UNCHANGED pending
           ELSE /\ pending' = Append(pending,
                                     [player_id |-> player.id,
                                      game_id |-> game.id,
                                      ttfl_score |-> calculate_ttfl_score(game_log),
                                      minutes |-> 0])
                /\ bf' = [bf EXCEPT !.li = @ + 1, !.fallback_scores = @ + 1]
    /\ UNCHANGED <<db, webVars, scoreVars, avgVars, minVars, retryVars, injuryVars, dailyVars, b_pc, b_run, ext_box, ext_logs, b_hist>>

\* after the entries of a player: db.commit() once the fallback has added a row
CommitPlayer ==
    /\ b_pc = "entries"
    /\ bf.li > Len(bf.game_logs)
    /\ IF ~bf.dry_run /\ bf.fallback_scores > 0
       THEN IF ViolatesUnique(db, pending)
            THEN /\ b_pc' = "raised"
                 /\ UNCHANGED <<db, bf, pending, commits>>
            ELSE /\ db' = [db EXCEPT !.scores = Flushed(db, pending)]
                 /\ commits' = commits + 1
                 /\ pending' = <<>>
                 /\ b_pc' = "logs"
                 /\ bf' = [bf EXCEPT !.pj = @ + 1]
       ELSE /\ b_pc' = "logs"
            /\ bf' = [bf EXCEPT !.pj = @ + 1]
            /\ UNCHANGED <<db, pending, commits>>
    /\ UNCHANGED <<webVars, scoreVars, avgVars, minVars, retryVars, injuryVars, mainVars, statusVars,
                   statsVars, b_run, ext_box, ext_logs, b_hist>>

\* the summary and the return statement; main() closes the session
BackfillReturn ==
    /\ \/ /\ b_pc = "box"
          /\ bf.gi > Len(bf.games_needing_scores)
          /\ bf.games_failed = <<>>
       \/ /\ b_pc = "logs"
          /\ bf.pj > Len(bf.relevant_players)
    /\ Returned(bf.dry_run, bf.games_processed,
                bf.scores_added + bf.fallback_scores,
                Len(bf.games_failed), db.scores)
    /\ b_pc' = "idle"
    /\ bf' = NoLocals
    /\ pending' = <<>>
    /\ UNCHANGED <<db, webVars, scoreVars, avgVars, minVars, retryVars, injuryVars, dailyVars, b_run, ext_box, ext_logs>>

\* The process is stopped in the middle of a run (the scheduler's time limit, a
\* signal, the machine going down): what was committed stays, the rows added
\* to the session since the last commit are lost, nothing is returned.
Interrupt ==
    /\ b_pc \in {"box", "lines", "logs", "entries"}
    /\ m_pc = "off"
    /\ b_pc' = "idle"
    /\ bf' = NoLocals
    /\ pending' = <<>>
    /\ b_hist' = Append(b_hist, [dry_run |-> bf.dry_run, ret |-> <<>>,
                                 scores |-> db.scores])
    /\ UNCHANGED <<db, webVars, scoreVars, avgVars, minVars, retryVars,
                   injuryVars, dailyVars, b_run, ext_box, ext_logs>>

\* Between two runs the provider's data changes: what a later request gets is
\* not bound by what an earlier one got.
ProviderChanges ==
    /\ b_pc = "idle"
    /\ m_pc = "off"
    /\ ext_box # EmptyDict \/ ext_logs # EmptyDict
    /\ ext_box' = EmptyDict
    /\ ext_logs' = EmptyDict
    /\ UNCHANGED <<db, webVars, scoreVars, avgVars, minVars, retryVars,
                   injuryVars, dailyVars, b_pc, b_run, bf, pending, b_hist>>

\* What the provider holds for every stored game and player, fixed before the
\* first run: per box score an error, one line, or a player the roster does
\* not know beside one it knows; per game log an error, one entry, or a
\* pre-season entry before a season one.
ProviderBoxes(d) ==
    [{g.nba_game_id : g \in Values(d.games)} ->
        {[kind |-> "error", rows |-> <<>>],
         [kind |-> "data", rows |-> <<BoxLine(11, 30, StatLineA)>>],
         [kind |-> "data", rows |-> <<BoxLine(99, 12, StatLineA),
                                      BoxLine(12, 30, StatLineB)>>]}]

ProviderLogs(d) ==
    [{p.nba_player_id : p \in Values(d.players)} ->
        {[kind |-> "error", rows |-> <<>>],
         [kind |-> "data", rows |-> <<LogEntry("Oct 25, 2025", StatLineA)>>],
         [kind |-> "data", rows |-> <<LogEntry("Oct 21, 2025", StatLineA),
                                      LogEntry("Oct 23, 2025", StatLineB)>>]}]

\* the script is idle and the provider's data is fixed
BackfillInitKnown ==
    /\ b_pc = "idle"
    /\ b_run = 0
    /\ bf = NoLocals
    /\ pending = <<>>
    /\ ext_box \in ProviderBoxes(db)
    /\ ext_logs \in ProviderLogs(db)
    /\ b_hist = <<>>

\* the web process does not run the script
BackfillOff ==
    /\ b_pc = "off"
    /\ b_run = 0
    /\ bf = NoLocals
    /\ pending = <<>>
    /\ ext_box = EmptyDict
    /\ ext_logs = EmptyDict
    /\ b_hist = <<>>

BackfillInit ==
    /\ b_pc = "idle"
    /\ b_run = 0
    /\ bf = NoLocals
    /\ pending = <<>>
    /\ ext_box = EmptyDict
    /\ ext_logs = EmptyDict
    /\ b_hist = <<>>

-----------------------------------------------------------------------------
(* The averages: batch_calculate_averages (services/player_stats.py)       *)

\* SQL NULL in TTFLScore.ttfl_score; a score is an integer of either sign
NullScore == -99999

\* the windows: scores[:15], scores[:10], timedelta(days=30)
Last15 == 15
Last10 == 10
CutoffDays == 30

RECURSIVE SeqSum(_)
SeqSum(s) == IF s = <<>> THEN 0 ELSE Head(s) + SeqSum(Tail(s))

\* round(total / n, 1) of a total >= 0, in tenths: the nearest tenth, and of
\* two equally near tenths the even one
RoundHalfEven(total, n) ==
    LET q == (10 * total) \div n
        r == (10 * total) % n
    IN  IF 2 * r < n THEN q
        ELSE IF 2 * r > n THEN q + 1
        ELSE IF q % 2 = 0 THEN q ELSE q + 1

\* round(sum(xs) / len(xs), 1), in tenths. Python rounds the double nearest to
\* the quotient: a quotient k.x5 that no double holds goes where the double's
\* error sends it. Scores that are multiples of ten have no such quotient over
\* one to twenty games (their halves are quarters, which doubles hold).
round1(total, n) ==
    IF total < 0 THEN 0 - RoundHalfEven(0 - total, n)
    ELSE RoundHalfEven(total, n)

\* the filter of the query, read without the condition on minutes
Played_AnyMinutes(r) == r.ttfl_score # NullScore

\* TTFLScore.ttfl_score.isnot(None), TTFLScore.minutes > 0: a comparison with
\* NULL is not true
Played(r) ==
    /\ r.ttfl_score # NullScore
    /\ r.minutes # NoScore
    /\ r.minutes > 0

\* the order read with the oldest game first
ComesFirst_OldestFirst(r, o, d) ==
    \/ r.player_id < o.player_id
    \/ /\ r.player_id = o.player_id
       /\ \/ d.games[r.game_id].game_date < d.games[o.game_id].game_date
          \/ /\ d.games[r.game_id].game_date = d.games[o.game_id].game_date
             /\ r.id <= o.id

\* order_by(TTFLScore.player_id, Game.game_date.desc()): by player, a player's
\* rows from the latest game to the oldest (two rows of one player on one date
\* come in the order of their primary keys here; the database promises none)
ComesFirst(r, o, d) ==
    \/ r.player_id < o.player_id
    \/ /\ r.player_id = o.player_id
       /\ \/ d.games[r.game_id].game_date > d.games[o.game_id].game_date
          \/ /\ d.games[r.game_id].game_date = d.games[o.game_id].game_date
             /\ r.id <= o.id

RECURSIVE Ordered(_, _)
Ordered(rows, d) ==
    IF rows = {} THEN <<>>
    ELSE LET first == CHOOSE r \in rows : \A o \in rows : ComesFirst(r, o, d)
         IN  <<first>> \o Ordered(rows \ {first}, d)

\* scores_data: (player_id, ttfl_score, game_date) of the selected rows
ScoresData(d, player_ids) ==
    LET rows == {r \in d.scores :
                    r.player_id \in Elems(player_ids) /\ Played(r)}
        s == Ordered(rows, d)
    IN  [i \in DOMAIN s |->
            [player_id |-> s[i].player_id, ttfl_score |-> s[i].ttfl_score,
             game_date |-> d.games[s[i].game_id].game_date]]

\* player_scores.get(player_id, []): the player's (ttfl_score, game_date)
\* pairs in the order of scores_data
PlayerScores(scores_data, player_id) ==
    SelectSeq(scores_data, LAMBDA s : s.player_id = player_id)

\* scores[:n]
FirstN(scores, n) ==
    SubSeq(scores, 1, IF Len(scores) < n THEN Len(scores) ELSE n)

TTFLs(scores) == [i \in DOMAIN scores |-> scores[i].ttfl_score]

\* round(sum(xs) / len(xs), 1) if xs else 0.0, in tenths
AverageOf(xs) == IF xs = <<>> THEN 0 ELSE round1(SeqSum(xs), Len(xs))

\* batch_calculate_averages(db, player_ids) on the day `today`: {} for no
\* player, else an entry per requested player; the averages in tenths
batch_calculate_averages(d, player_ids, today) ==
    IF player_ids = <<>> THEN EmptyDict
    ELSE LET cutoff_30d == today - CutoffDays
             scores_data == ScoresData(d, player_ids)
         IN  [player_id \in Elems(player_ids) |->
                LET scores == PlayerScores(scores_data, player_id)
                    last_15 == TTFLs(FirstN(scores, Last15))
                    last_10 == TTFLs(FirstN(scores, Last10))
                    last_30d == TTFLs(SelectSeq(scores,
                                    LAMBDA s : s.game_date >= cutoff_30d))
                IN  [avg_ttfl |-> AverageOf(last_15),
                     avg_ttfl_l10 |-> AverageOf(last_10),
                     avg_ttfl_l30d |-> AverageOf(last_30d)]]

\* the longest history of a player
MaxHistory == 20

\* the day the averages are asked for, as a day number
Today == 100

HistoryLens == {0, 1, 9, 10, 11, 15, 16, 20, MaxHistory}

\* the score of a player's k-th latest game: the same every game, rising into
\* the past, or up and down with a negative night every third game
ScorePatterns == {"flat", "rising", "mixed"}

ScoreAt(pattern, k) ==
    CASE pattern = "flat" -> 20
      [] pattern = "rising" -> 10 * k
      [] pattern = "mixed" -> IF k % 3 = 0 THEN 0 - 10 ELSE 10 * (k % 4)

\* rows that are not a played game: none; minutes 0 in the latest game and the
\* 11th; NULL minutes in the 2nd; a NULL score in the 3rd; every row with
\* minutes 0 or NULL
Defects == {"none", "dnp", "null_minutes", "null_score", "all"}

MinutesAt(defect, k) ==
    CASE defect = "dnp" /\ k \in {1, 11} -> 0
      [] defect = "null_minutes" /\ k = 2 -> NoScore
      [] defect = "all" -> IF k % 2 = 1 THEN 0 ELSE NoScore
      [] OTHER -> 30

TTFLAt(pattern, defect, k) ==
    IF defect = "null_score" /\ k = 3 THEN NullScore ELSE ScoreAt(pattern, k)

\* The durable rows the averages are asked over: n games, the k-th latest
\* `gap` days before the one after it; player 1 has a row in each of them, the
\* older the game the smaller the key; player 2 has a row in each of them or
\* none; player 3 has none.
HistoryDb(n, first, gap, pattern, defect, other) ==
    [teams   |-> [t \in 1..2 |-> [id |-> t, wins |-> 0]],
     games   |-> [k \in 1..n |->
                    [id |-> k, nba_game_id |-> NbaGameId(k),
                     game_date |-> Today - first - gap * (k - 1),
                     home_team_id |-> 1, away_team_id |-> 2,
                     status |-> "final"]],
     players |-> [p \in 1..3 |->
                    [id |-> p, nba_player_id |-> NbaPlayerId(p),
                     team_id |-> IF p = 2 THEN 2 ELSE 1, is_active |-> TRUE]],
     scores  |-> {[id |-> n + 1 - k, player_id |-> 1, game_id |-> k,
                   ttfl_score |-> TTFLAt(pattern, defect, k),
                   minutes |-> MinutesAt(defect, k)] : k \in 1..n}
                 \cup (IF other
                       THEN {[id |-> n + k, player_id |-> 2, game_id |-> k,
                              ttfl_score |-> 70, minutes |-> 25] : k \in 1..n}
                       ELSE {})]

AveragesDbs ==
    {HistoryDb(n, first, gap, pattern, defect, other) :
        n \in HistoryLens, first \in {0, 1}, gap \in {1, 2, 3},
        pattern \in ScorePatterns, defect \in Defects, other \in BOOLEAN}

\* the player_ids a caller passes
RequestedIds == {<<>>, <<1>>, <<3>>, <<1, 2>>, <<2, 3, 1>>, <<1, 1>>}

\* a request handler calls batch_calculate_averages(db, player_ids)
BatchCalculateAverages ==
    /\ a_pc # "off"
    /\ \E player_ids \in RequestedIds :
        /\ a_ids' = player_ids
        /\ a_result' = batch_calculate_averages(db, player_ids, a_today)
    /\ a_pc' = "returned"
    /\ UNCHANGED <<appVars, retryVars, backfillVars, injuryVars, dailyVars,
                   scoreVars, minVars, a_today>>

AveragesOff ==
    /\ a_pc = "off"
    /\ a_today = Today
    /\ a_ids = <<>>
    /\ a_result = EmptyDict

AveragesInit ==
    /\ a_pc = "idle"
    /\ a_today = Today
    /\ a_ids = <<>>
    /\ a_result = EmptyDict


\* The per-player computations and the second copy of the batch computation
\* (routers/players.py)

\* the orders in which the database may return two rows of one player and one
\* game_date: ORDER BY game_date names no order between them, and each query
\* gets its own; by the primary key upwards or downwards
TieOrders == {"key_asc", "key_desc"}

\* order_by(..., Game.game_date.desc()) as one query is answered
ComesFirstIn(tie, r, o, d) ==
    \/ r.player_id < o.player_id
    \/ /\ r.player_id = o.player_id
       /\ \/ d.games[r.game_id].game_date > d.games[o.game_id].game_date
          \/ /\ d.games[r.game_id].game_date = d.games[o.game_id].game_date
             /\ IF tie = "key_asc" THEN r.id <= o.id ELSE r.id >= o.id

RECURSIVE OrderedIn(_, _, _)
OrderedIn(tie, rows, d) ==
    IF rows = {} THEN <<>>
    ELSE LET first == CHOOSE r \in rows : \A o \in rows : ComesFirstIn(tie, r, o, d)
         IN  <<first>> \o OrderedIn(tie, rows \ {first}, d)

\* the per-player query read without the condition on minutes
calculate_player_avg_ttfl_AnyMinutes(d, player_id, limit, tie) ==
    LET rows == {r \in d.scores :
                    r.player_id = player_id /\ r.ttfl_score # NullScore}
        scores == FirstN(OrderedIn(tie, rows, d), limit)
    IN  AverageOf(TTFLs(scores))

\* _calculate_player_avg_ttfl(db, player_id, limit): the player's rows with a
\* score and minutes > 0, order_by(Game.game_date.desc()).limit(limit); 0.0
\* for no row, else round(sum / len, 1), in tenths
calculate_player_avg_ttfl(d, player_id, limit, tie) ==
    LET rows == {r \in d.scores : r.player_id = player_id /\ Played(r)}
        scores == FirstN(OrderedIn(tie, rows, d), limit)
    IN  AverageOf(TTFLs(scores))

\* _calculate_player_avg_ttfl_last_days(db, player_id, days) on the day
\* `today`: the same rows of games dated today - days or later, neither
\* ordered nor limited (the sum and the count are those of any order)
calculate_player_avg_ttfl_last_days(d, player_id, days, today) ==
    LET cutoff_date == today - days
        rows == {r \in d.scores :
                    /\ r.player_id = player_id /\ Played(r)
                    /\ d.games[r.game_id].game_date >= cutoff_date}
    IN  AverageOf(TTFLs(OrderedIn("key_asc", rows, d)))

\* _batch_calculate_averages(db, player_ids) of routers/players.py on the day
\* `today`: line for line the function of services/player_stats.py, over the
\* rows as its own query returns them
router_batch_calculate_averages(d, player_ids, today, tie) ==
    IF player_ids = <<>> THEN EmptyDict
    ELSE LET cutoff_30d == today - CutoffDays
             rows == {r \in d.scores :
                         r.player_id \in Elems(player_ids) /\ Played(r)}
             s == OrderedIn(tie, rows, d)
             scores_data ==
                 [i \in DOMAIN s |->
                     [player_id |-> s[i].player_id,
                      ttfl_score |-> s[i].ttfl_score,
                      game_date |-> d.games[s[i].game_id].game_date]]
         IN  [player_id \in Elems(player_ids) |->
                LET scores == SelectSeq(scores_data,
                                  LAMBDA x : x.player_id = player_id)
                    last_15 == TTFLs(FirstN(scores, Last15))
                    last_10 == TTFLs(FirstN(scores, Last10))
                    last_30d == TTFLs(SelectSeq(scores,
                                    LAMBDA x : x.game_date >= cutoff_30d))
                IN  [avg_ttfl |-> AverageOf(last_15),
                     avg_ttfl_l10 |-> AverageOf(last_10),
                     avg_ttfl_l30d |-> AverageOf(last_30d)]]

\* A history of HistoryDb in which the games come two to a date: the latest
\* two on one day, the two before them on the day before, and so on.
PairedDb(n, first, pattern, defect, other) ==
    LET h == HistoryDb(n, first, 1, pattern, defect, other)
    IN  [h EXCEPT !.games =
            [k \in 1..n |->
                [h.games[k] EXCEPT
                    !.game_date = Today - first - ((k - 1) \div 2)]]]

\* the histories the computations are compared over: a game a day, and two
\* games a day
ComparedDbs ==
    {HistoryDb(n, first, 1, pattern, defect, other) :
        n \in HistoryLens, first \in {0, 1},
        pattern \in ScorePatterns, defect \in Defects, other \in BOOLEAN}
    \cup
    {PairedDb(n, first, pattern, defect, other) :
        n \in HistoryLens, first \in {0, 1},
        pattern \in ScorePatterns, defect \in Defects, other \in BOOLEAN}

\* a caller computes the three averages of one player with the per-player
\* functions: limit 15, limit 10, and the last 30 days
CalculatePlayerAverages ==
    /\ a_pc # "off"
    /\ \E player_id \in 1..3, tie \in TieOrders :
        /\ a_ids' = <<player_id>>
        /\ a_result' =
              [p \in {player_id} |->
                  [avg_ttfl |-> calculate_player_avg_ttfl(db, p, Last15, tie),
                   avg_ttfl_l10 |->
                       calculate_player_avg_ttfl(db, p, Last10, tie),
                   avg_ttfl_l30d |->
                       calculate_player_avg_ttfl_last_days(db, p, CutoffDays,
                                                           a_today)]]
    /\ a_pc' = "player"
    /\ UNCHANGED <<appVars, retryVars, backfillVars, injuryVars, dailyVars,
                   scoreVars, minVars, a_today>>

\* get_tonights_players calls _batch_calculate_averages(db, player_ids)
RouterBatchCalculateAverages ==
    /\ a_pc # "off"
    /\ \E player_ids \in RequestedIds, tie \in TieOrders :
        /\ a_ids' = player_ids
        /\ a_result' =
              router_batch_calculate_averages(db, player_ids, a_today, tie)
    /\ a_pc' = "router"
    /\ UNCHANGED <<appVars, retryVars, backfillVars, injuryVars, dailyVars,
                   scoreVars, minVars, a_today>>

-----------------------------------------------------------------------------
(* The minutes backfill: scripts/populate_minutes.py                       *)

\* the number of runs of populate_minutes
MaxMinutesRuns == 2

\* the MIN column of a game log row, as a list of characters
Digits == <<"0", "1", "2", "3", "4", "5", "6", "7", "8", "9">>

IsDigit(c) == \E i \in DOMAIN Digits : Digits[i] = c

DigitOf(c) == (CHOOSE i \in DOMAIN Digits : Digits[i] = c) - 1

\* the characters before the first occurrence of c, or all of them
RECURSIVE Before(_, _)
Before(s, c) ==
    IF s = <<>> \/ Head(s) = c THEN <<>> ELSE <<Head(s)>> \o Before(Tail(s), c)

\* int(text) for a text of digits
RECURSIVE IntOf(_)
IntOf(s) ==
    IF s = <<>> THEN 0 ELSE 10 * IntOf(SubSeq(s, 1, Len(s) - 1)) + DigitOf(s[Len(s)])

AllDigits(s) == s # <<>> /\ \A i \in DOMAIN s : IsDigit(s[i])

\* parse_minutes: '32:45' and '32' give 32, '12.7' gives 12; nothing, '0' and
\* what is no number give 0
parse_minutes(min_str) ==
    IF min_str = <<>> \/ min_str = <<"0">> THEN 0
    ELSE IF ":" \in Elems(min_str)
    THEN IF AllDigits(Before(min_str, ":")) THEN IntOf(Before(min_str, ":")) ELSE 0
    ELSE LET whole == Before(min_str, ".")
             rest == SubSeq(min_str, Len(whole) + 2, Len(min_str))
         IN  IF /\ AllDigits(whole) \/ (whole = <<>> /\ AllDigits(rest))
                /\ rest = <<>> \/ AllDigits(rest)
             THEN IntOf(whole)
             ELSE 0

\* game_date.strftime("%Y-%m-%d")
strftime(game_date) ==
    CASE game_date = 21 -> "2025-10-21"
      [] game_date = 23 -> "2025-10-23"
      [] game_date = 25 -> "2025-10-25"

\* one row of the PlayerGameLog frame
MinutesRow(game_date, min_str) == [GAME_DATE |-> game_date, MIN |-> min_str]

\* What the provider holds for the game log of a player: an error, no row, or
\* rows: one game; three games, one of them not played; a date in another
\* format, a row without date and a MIN that is no number.
MinutesResults ==
    {[kind |-> "error", rows |-> <<>>],
     [kind |-> "data", rows |-> <<>>],
     [kind |-> "data",
      rows |-> <<MinutesRow("Oct 25, 2025", <<"3", "2", ":", "4", "5">>)>>],
     [kind |-> "data",
      rows |-> <<MinutesRow("Oct 23, 2025", <<"2", "8">>),
                 MinutesRow("Oct 25, 2025", <<"3", "1">>),
                 MinutesRow("Oct 21, 2025", <<"0">>)>>],
     [kind |-> "data",
      rows |-> <<MinutesRow("2025-10-23", <<"1", "2", ".", "7">>),
                 MinutesRow("", <<"3", "5">>),
                 MinutesRow("Oct 21, 2025", <<"a", "b", "c">>)>>]}

\* the key a row is filed under: the date in ISO form, or the text as it came
\* when strptime rejects it
MinutesKey(game_date) ==
    IF strptime(game_date).ok THEN strftime(strptime(game_date).date)
    ELSE game_date

\* fetch_player_minutes: {date_str: minutes}, a later row of a key replacing an
\* earlier one; {} when the request failed or the frame is empty
RECURSIVE MinutesMap(_, _)
MinutesMap(rows, n) ==
    IF n = 0 THEN EmptyDict
    ELSE IF rows[n].GAME_DATE = "" THEN MinutesMap(rows, n - 1)
    ELSE DictSet(MinutesMap(rows, n - 1), MinutesKey(rows[n].GAME_DATE),
                 parse_minutes(rows[n].MIN))

fetch_player_minutes(result) ==
    IF result.kind = "error" THEN EmptyDict
    ELSE MinutesMap(result.rows, Len(result.rows))

\* the filter read as "no minutes": NULL or 0
MissingMinutes_OrZero(r) == r.minutes \in {NoScore, 0}

\* TTFLScore.minutes.is_(None)
MissingMinutes(r) == r.minutes = NoScore

\* players_query: the players with a row that lacks minutes, those with most
\* such rows first (players with as many, by primary key), cut at --limit
RowsLacking(d, player_id) ==
    {r \in d.scores : r.player_id = player_id /\ MissingMinutes(r)}

RECURSIVE MostRowsFirst(_, _)
MostRowsFirst(d, ids) ==
    IF ids = {} THEN <<>>
    ELSE LET first == CHOOSE p \in ids : \A o \in ids :
                          \/ Cardinality(RowsLacking(d, p))
                                > Cardinality(RowsLacking(d, o))
                          \/ /\ Cardinality(RowsLacking(d, p))
                                  = Cardinality(RowsLacking(d, o))
                             /\ p <= o
         IN  <<first>> \o MostRowsFirst(d, ids \ {first})

PlayersQuery(d, limit) ==
    LET all == MostRowsFirst(d, {p \in DOMAIN d.players :
                                    RowsLacking(d, p) # {}})
    IN  IF limit = 0 \/ limit >= Len(all) THEN all ELSE SubSeq(all, 1, limit)

\* the rows of a player after the loop over `scores`: a row that lacks minutes
\* and whose game's date is a key of minutes_map takes the minutes filed there
WithMinutes(d, player_id, minutes_map) ==
    {IF /\ r \in RowsLacking(d, player_id)
        /\ strftime(d.games[r.game_id].game_date) \in DOMAIN minutes_map
     THEN [r EXCEPT !.minutes =
              minutes_map[strftime(d.games[r.game_id].game_date)]]
     ELSE r : r \in d.scores}

\* the locals of main() before its first statement
NoMinutesLocals == [players |-> <<>>, pi |-> 1, total_updated |-> 0]

\* main() up to the loop: the session and the players to process. No --limit
\* (or --limit 0, which `if args.limit` takes for none) or --limit 1.
MinutesStart ==
    /\ pm_pc = "idle"
    /\ pm_run < MaxMinutesRuns
    /\ pm_run' = pm_run + 1
    /\ \E limit \in {0, 1} :
        pm' = [NoMinutesLocals EXCEPT !.players = PlayersQuery(db, limit)]
    /\ pm_pc' = "players"
    /\ UNCHANGED <<appVars, retryVars, backfillVars, injuryVars, dailyVars,
                   scoreVars, avgVars, ext_min>>

\* one pass of the loop over the players: the fetch, the player's rows that
\* lack minutes, and db.commit() when one of them was given minutes; a commit
\* that fails leaves main()
MinutesPlayer ==
    /\ pm_pc = "players"
    /\ pm.pi <= Len(pm.players)
    /\ LET player_id == pm.players[pm.pi]
           nba_player_id == db.players[player_id].nba_player_id
       IN  \E result \in (IF nba_player_id \in DOMAIN ext_min
                          THEN {ext_min[nba_player_id]}
                          ELSE MinutesResults) :
            LET minutes_map == fetch_player_minutes(result)
                scores == WithMinutes(db, player_id, minutes_map)
                updated == Cardinality(scores \ db.scores)
            IN  /\ ext_min' = DictSet(ext_min, nba_player_id, result)
                /\ IF DOMAIN minutes_map = {} \/ updated = 0
                   THEN /\ pm' = [pm EXCEPT !.pi = @ + 1]
                        /\ UNCHANGED <<db, commits, pm_pc>>
                   ELSE \/ /\ db' = [db EXCEPT !.scores = scores]
                           /\ commits' = commits + 1
                           /\ pm' = [pm EXCEPT !.pi = @ + 1,
                                               !.total_updated = @ + updated]
                           /\ UNCHANGED pm_pc
                        \/ /\ pm_pc' = "raised"
                           /\ UNCHANGED <<db, commits, pm>>
    /\ UNCHANGED <<webVars, retryVars, backfillVars, injuryVars, mainVars,
                   statusVars, statsVars, scoreVars, avgVars, pm_run>>

\* the loop is over: the total is printed and the session closed
MinutesDone ==
    /\ pm_pc = "players"
    /\ pm.pi > Len(pm.players)
    /\ pm_pc' = "idle"
    /\ UNCHANGED <<appVars, retryVars, backfillVars, injuryVars, dailyVars,
                   scoreVars, avgVars, pm_run, pm, ext_min>>

MinutesOff ==
    /\ pm_pc = "off"
    /\ pm_run = 0
    /\ pm = NoMinutesLocals
    /\ ext_min = EmptyDict

MinutesInit ==
    /\ pm_pc = "idle"
    /\ pm_run = 0
    /\ pm = NoMinutesLocals
    /\ ext_min = EmptyDict

----------------------------------------------------------------------------
(* The injury refresh: update_player_injuries (services/injuries.py)       *)

\* Python's None in a nullable string column
NoneStr == "<None>"

\* characters NFKD splits into an ASCII letter and a combining mark
Decomposed == [c \in {"A_acute", "e_acute"} |->
                  IF c = "A_acute" THEN "A" ELSE "e"]

\* non-ASCII characters NFKD leaves whole
Undecomposed == {"o_slash"}

\* unicodedata.normalize("NFKD", name).encode("ascii", "ignore").decode("ascii")
RECURSIVE AsciiIgnore(_)
AsciiIgnore(name) ==
    IF name = <<>> THEN <<>>
    ELSE LET c == Head(name)
             rest == AsciiIgnore(Tail(name))
         IN  IF c \in DOMAIN Decomposed THEN <<Decomposed[c]>> \o rest
             ELSE IF c \in Undecomposed THEN rest
             ELSE <<c>> \o rest

\* str.strip()
RECURSIVE Strip(_)
Strip(str) ==
    IF str = <<>> THEN <<>>
    ELSE IF Head(str) = " " THEN Strip(Tail(str))
    ELSE IF str[Len(str)] = " " THEN Strip(SubSeq(str, 1, Len(str) - 1))
    ELSE str

normalize_name(name) == Strip(Lower(AsciiIgnore(name)))

\* names of players and teams, as lists of characters
NameAl == <<"A", "l">>
NameAlAccent == <<"A_acute", "L", " ">>
NameBo == <<"B", "o">>
NameZed == <<"Z", "e", "d">>
TeamHawks == <<"H", "a", "w", "k", "s">>
TeamNets == <<"N", "e", "t", "s">>

\* The stored rows the refresh starts from: two teams; player 1 is Al of the
\* Hawks; player 2 is Bo of the Nets or a second Al, of the Nets. No player
\* has an injury field set.
InjuryDbs ==
    {[teams   |-> (1 :> [id |-> 1, full_name |-> TeamHawks])
                  @@ (2 :> [id |-> 2, full_name |-> TeamNets]),
      games   |-> <<>>,
      players |-> (1 :> [id |-> 1, nba_player_id |-> NbaPlayerId(1),
                         name |-> NameAl, team_id |-> 1, is_active |-> TRUE,
                         injury_status |-> NoneStr,
                         injury_return_date |-> NoneStr])
                  @@ (2 :> [id |-> 2, nba_player_id |-> NbaPlayerId(2),
                            name |-> n2, team_id |-> 2, is_active |-> TRUE,
                            injury_status |-> NoneStr,
                            injury_return_date |-> NoneStr]),
      scores  |-> {}] : n2 \in {NameBo, NameAl}}

\* one record of scrape_espn_injuries
Injury(name, team, status, return_date, details) ==
    [name |-> name, team |-> team, status |-> status,
     return_date |-> return_date, details |-> details]

\* What scrape_espn_injuries returns: nothing (the fetch failed or the page
\* lists nobody), or a list of records; the last list has one player twice,
\* spelt in two ways.
InjuryLists ==
    {<<>>,
     <<Injury(NameAl, TeamHawks, "Out", "Jan 15", "")>>,
     <<Injury(NameAl, TeamHawks, "Out", "Jan 15", "knee")>>,
     <<Injury(NameAlAccent, TeamHawks, "Day-To-Day", "Jan 20", "")>>,
     <<Injury(NameBo, TeamNets, "Out", "Jan 15", "")>>,
     <<Injury(NameAl, TeamNets, "Out", "Feb 1", "")>>,
     <<Injury(NameAl, TeamHawks, "Out", "Jan 15", ""),
       Injury(NameBo, TeamNets, "Day-To-Day", "Jan 20", "ankle")>>,
     <<Injury(NameZed, TeamHawks, "Out", "Jan 15", "")>>,
     <<Injury(NameAlAccent, TeamHawks, "Day-To-Day", "Jan 20", ""),
       Injury(NameAl, TeamHawks, "Out", "Jan 15", "")>>}

\* dict.get on a dict built by assigning each record in list order: of the
\* records with the key (at the indexes `hits`) the last one, or None
LastOf(injuries, hits) ==
    IF hits = {} THEN None
    ELSE injuries[CHOOSE i \in hits : \A j \in hits : j <= i]

\* injury_by_name_team.get((name_key, team_key))
ByNameTeam(injuries, name_key, team_key) ==
    LastOf(injuries, {i \in DOMAIN injuries :
                         /\ normalize_name(injuries[i].name) = name_key
                         /\ normalize_name(injuries[i].team) = team_key})

\* injury_by_name.get(name_key)
ByName(injuries, name_key) ==
    LastOf(injuries, {i \in DOMAIN injuries :
                         normalize_name(injuries[i].name) = name_key})

\* A Player object as the query loads it. The class maps injury_status and
\* injury_return_date; injury_details is no column of it, so the object has
\* that attribute only once the function has assigned it.
Loaded(row) == [row |-> row, has_details |-> FALSE, injury_details |-> NoneStr]

\* the key a player is looked up with
PlayerKeys(d, player) ==
    [name |-> normalize_name(player.name),
     team |-> IF player.team_id \in DOMAIN d.teams
              THEN normalize_name(d.teams[player.team_id].full_name)
              ELSE <<>>]

\* the record update_player_injuries selects for a player, or None
InjuryFor(d, injuries, player) ==
    LET k == PlayerKeys(d, player)
        precise == ByNameTeam(injuries, k.name, k.team)
    IN  IF precise # None THEN precise ELSE ByName(injuries, k.name)

\* the key of a record: (normalize_name(inj["name"]), normalize_name(inj["team"]))
InjuryKey(inj) == <<normalize_name(inj.name), normalize_name(inj.team)>>

\* One pass of `for player in players`, on the loop's state: the session's
\* objects, the two counters, matched_injury_keys, and the exception if one
\* was raised.
LoopPass(d, injuries, acc, pid) ==
    LET obj == acc.objs[pid]
        player == obj.row
        k == PlayerKeys(d, player)
        precise == ByNameTeam(injuries, k.name, k.team)
        injury == InjuryFor(d, injuries, player)
        matched == IF precise # None THEN acc.matched \cup {<<k.name, k.team>>}
                   ELSE IF injury # None THEN acc.matched \cup {InjuryKey(injury)}
                   ELSE acc.matched
        new_details == IF injury.details # "" THEN injury.details ELSE NoneStr
        written == [row |-> [player EXCEPT
                                !.injury_status = injury.status,
                                !.injury_return_date = injury.return_date],
                    has_details |-> TRUE, injury_details |-> new_details]
        cleared == [row |-> [player EXCEPT !.injury_status = NoneStr,
                                           !.injury_return_date = NoneStr],
                    has_details |-> TRUE, injury_details |-> NoneStr]
    IN  IF acc.raised # "" THEN acc
        ELSE IF injury # None
        THEN IF \/ player.injury_status # injury.status
                \/ player.injury_return_date # injury.return_date
             THEN [acc EXCEPT !.objs[pid] = written, !.updated = @ + 1,
                              !.matched = matched]
             ELSE IF ~obj.has_details
             THEN [acc EXCEPT !.raised = "AttributeError", !.matched = matched]
             ELSE IF obj.injury_details # new_details
             THEN [acc EXCEPT !.objs[pid] = written, !.updated = @ + 1,
                              !.matched = matched]
             ELSE [acc EXCEPT !.matched = matched]
        ELSE IF player.injury_status # NoneStr
        THEN [acc EXCEPT !.objs[pid] = cleared, !.cleared = @ + 1]
        ELSE acc

\* the loop over players = db.query(Player).all(), up to the n-th player
RECURSIVE PlayerLoop(_, _, _)
PlayerLoop(d, injuries, n) ==
    IF n = 0
    THEN [objs |-> [p \in DOMAIN d.players |-> Loaded(d.players[p])],
          updated |-> 0, cleared |-> 0, matched |-> {}, raised |-> ""]
    ELSE LoopPass(d, injuries, PlayerLoop(d, injuries, n - 1),
                  QueryAll(d.players)[n].id)

\* every record is reported
NotFound_Everyone(injuries, matched) == [i \in DOMAIN injuries |-> injuries[i].name]

\* not_found: the names of the records whose key was matched by no player
NotFound(injuries, matched) ==
    LET keep == SelectSeq(injuries, LAMBDA inj : InjuryKey(inj) \notin matched)
    IN  [i \in DOMAIN keep |-> keep[i].name]

\* the early return that is never taken
NoData_Never(injuries) == FALSE

\* not injuries
NoData(injuries) == injuries = <<>>

\* no refresh has run yet
NoInjuryRun == [kind |-> "none"]

\* injuries = scrape_espn_injuries(), and the early return on an empty list
InjuriesFetch ==
    /\ i_pc = "idle"
    /\ CallerAllows("injuries", i_run, MaxInjuryRuns)
    /\ ~m_args.dry_run
    /\ i_run' = i_run + 1
    /\ i_pre' = db.players
    /\ \E injuries \in InjuryLists :
        /\ i_injuries' = injuries
        /\ IF NoData(injuries)
           THEN /\ i_result' = [kind |-> "returned", updated |-> 0, cleared |-> 0,
                                not_found |-> <<>>,
                                error |-> "No injury data fetched"]
                /\ UNCHANGED i_pc
           ELSE /\ i_pc' = "loop"
                /\ i_result' = NoInjuryRun
    /\ UNCHANGED <<db, webVars, scoreVars, avgVars, minVars, retryVars, backfillVars, dailyVars, i_acc>>

\* the lookups and the loop over the players; an exception leaves the function
\* before db.commit() and the session's changes are dropped with it
InjuriesLoop ==
    /\ i_pc = "loop"
    /\ LET acc == PlayerLoop(db, i_injuries, Cardinality(DOMAIN db.players))
       IN  IF acc.raised # ""
           THEN /\ i_pc' = "idle"
                /\ i_result' = [kind |-> "raised", error |-> acc.raised]
                /\ i_acc' = acc
           ELSE /\ i_pc' = "commit"
                /\ i_acc' = acc
                /\ UNCHANGED i_result
    /\ UNCHANGED <<db, webVars, scoreVars, avgVars, minVars, retryVars, backfillVars, dailyVars, i_run, i_pre, i_injuries>>

\* not_found, db.commit() and the return; a commit that fails raises out of
\* the function
InjuriesCommit ==
    /\ i_pc = "commit"
    /\ \/ /\ db' = [db EXCEPT !.players = [p \in DOMAIN @ |-> i_acc.objs[p].row]]
          /\ commits' = commits + 1
          /\ i_result' = [kind |-> "returned", updated |-> i_acc.updated,
                          cleared |-> i_acc.cleared,
                          not_found |-> NotFound(i_injuries, i_acc.matched)]
       \/ /\ i_result' = [kind |-> "raised", error |-> "OperationalError"]
          /\ UNCHANGED <<db, commits>>
    /\ i_pc' = "idle"
    /\ UNCHANGED <<webVars, scoreVars, avgVars, minVars, retryVars, backfillVars, mainVars, statusVars,
                   statsVars, i_run, i_pre, i_injuries, i_acc>>

NoLoop == [objs |-> <<>>, updated |-> 0, cleared |-> 0, matched |-> {},
           raised |-> ""]

\* no injury refresh runs
InjuriesOff ==
    /\ i_pc = "off"
    /\ i_run = 0
    /\ i_pre = <<>>
    /\ i_injuries = <<>>
    /\ i_acc = NoLoop
    /\ i_result = NoInjuryRun

InjuriesInit ==
    /\ i_pc = "idle"
    /\ i_run = 0
    /\ i_pre = <<>>
    /\ i_injuries = <<>>
    /\ i_acc = NoLoop
    /\ i_result = NoInjuryRun

----------------------------------------------------------------------------
(* The daily update script: update_game_statuses and update_team_stats     *)
(* (scripts/daily_update.py)                                               *)

\* Team.nba_team_id, one per team
NbaTeamId(tid) == 1000 + tid

\* The eleven metrics of a team, as get_all_team_stats returns them. `gen`
\* tells one publication of the figures from the next.
TeamMetrics(gen) ==
    [wins |-> 10 + gen, losses |-> 5, pace |-> 99 + gen, def_rating |-> 110,
     opp_ppg |-> 112, opp_rpg |-> 44, opp_apg |-> 25, opp_efg_pct |-> 54,
     opp_tov |-> 14, opp_stl |-> 8, opp_blk |-> 5]

\* a team never refreshed: every metric column is NULL
NoMetrics ==
    [wins |-> NoScore, losses |-> NoScore, pace |-> NoScore,
     def_rating |-> NoScore, opp_ppg |-> NoScore, opp_rpg |-> NoScore,
     opp_apg |-> NoScore, opp_efg_pct |-> NoScore, opp_tov |-> NoScore,
     opp_stl |-> NoScore, opp_blk |-> NoScore]

\* The stored rows a full run of the script starts from: the Hawks and the
\* Nets, never refreshed; game 1 final on the 25th; game 2 scheduled or live
\* on the 23rd, or a pre-season game, live on the 21st; Al of the Hawks and Bo
\* of the Nets, Bo listed as injured by an earlier run or not.
MainDbs ==
    {[teams   |-> [t \in {1, 2} |->
                      [id |-> t, nba_team_id |-> NbaTeamId(t),
                       full_name |-> IF t = 1 THEN TeamHawks ELSE TeamNets,
                       stats_updated_at |-> 0] @@ NoMetrics],
      games   |-> (1 :> [id |-> 1, nba_game_id |-> NbaGameId(1),
                         game_date |-> 25, home_team_id |-> 1,
                         away_team_id |-> 2, status |-> "final",
                         home_score |-> 100, away_score |-> 90])
                  @@ (2 :> [id |-> 2, nba_game_id |-> NbaGameId(2),
                            game_date |-> g2[2], home_team_id |-> 2,
                            away_team_id |-> 1, status |-> g2[1],
                            home_score |-> NoScore, away_score |-> NoScore]),
      players |-> (1 :> [id |-> 1, nba_player_id |-> NbaPlayerId(1),
                         name |-> NameAl, team_id |-> 1, is_active |-> TRUE,
                         injury_status |-> NoneStr,
                         injury_return_date |-> NoneStr])
                  @@ (2 :> [id |-> 2, nba_player_id |-> NbaPlayerId(2),
                            name |-> NameBo, team_id |-> 2, is_active |-> TRUE,
                            injury_status |-> inj2,
                            injury_return_date |->
                                IF inj2 = NoneStr THEN NoneStr ELSE "Jan 20"]),
      scores  |-> {}] :
        g2 \in {<<"scheduled", 23>>, <<"live", 23>>, <<"live", 21>>},
        inj2 \in {NoneStr, "Day-To-Day"}}

\* one row of the schedule frame
ScheduleRow(gameId, gameStatus, home, away) ==
    [gameId |-> gameId, gameStatus |-> gameStatus,
     homeTeam_score |-> home, awayTeam_score |-> away]

\* What fetch_schedule ends with: an exception (timeouts to the last attempt,
\* or any other error), an empty frame, or rows: game 2 final, game 2 live,
\* game 2 final without scores beside a stale row for game 1 and a game the
\* store does not hold.
ScheduleResults ==
    {[kind |-> "error", rows |-> <<>>],
     [kind |-> "data", rows |-> <<>>],
     [kind |-> "data", rows |-> <<ScheduleRow(NbaGameId(2), 3, 110, 105)>>],
     [kind |-> "data", rows |-> <<ScheduleRow(NbaGameId(2), 2, NoScore, NoScore)>>],
     [kind |-> "data", rows |-> <<ScheduleRow(NbaGameId(1), 1, NoScore, NoScore),
                                  ScheduleRow(NbaGameId(2), 3, NoScore, 105),
                                  ScheduleRow(NbaGameId(9), 3, 88, 80)>>]}

\* the entry of schedule_data built from one row
ScheduleInfo(row) ==
    LET status == IF row.gameStatus = 3 THEN "final"
                  ELSE IF row.gameStatus = 2 THEN "live"
                  ELSE "scheduled"
    IN  [status |-> status,
         home_score |-> IF status = "final" THEN row.homeTeam_score ELSE NoScore,
         away_score |-> IF status = "final" THEN row.awayTeam_score ELSE NoScore]

\* schedule_data: game id -> entry; a later row of the same game replaces an
\* earlier one
RECURSIVE ScheduleData(_, _)
ScheduleData(rows, n) ==
    IF n = 0 THEN EmptyDict
    ELSE DictSet(ScheduleData(rows, n - 1), rows[n].gameId, ScheduleInfo(rows[n]))

\* the query without its filter: every stored game
GamesToUpdate_All(d) == QueryAll(d.games)

\* db.query(Game).filter(Game.status != "final").all()
GamesToUpdate(d) == SelectSeq(QueryAll(d.games), LAMBDA g : g.status # "final")

\* the pass that stores the status and leaves the scores
StatusPass_StatusOnly(schedule_data, dry_run, acc, game) ==
    IF game.nba_game_id \notin DOMAIN schedule_data THEN acc
    ELSE LET info == schedule_data[game.nba_game_id]
             status_differs == game.status # info.status
             g1 == IF status_differs /\ ~dry_run
                   THEN [game EXCEPT !.status = info.status] ELSE game
         IN  [games |-> [acc.games EXCEPT ![game.id] = g1],
              updated_count |-> IF status_differs
                                THEN acc.updated_count + 1
                                ELSE acc.updated_count]

\* the pass with needs_update starting out True: every game the schedule
\* knows is counted
StatusPass_CountsMatches(schedule_data, dry_run, acc, game) ==
    IF game.nba_game_id \notin DOMAIN schedule_data THEN acc
    ELSE LET info == schedule_data[game.nba_game_id]
             status_differs == game.status # info.status
             scores_differ == /\ info.status = "final"
                              /\ \/ game.home_score # info.home_score
                                 \/ game.away_score # info.away_score
             g1 == IF status_differs /\ ~dry_run
                   THEN [game EXCEPT !.status = info.status] ELSE game
             g2 == IF scores_differ /\ ~dry_run
                   THEN [g1 EXCEPT !.home_score = info.home_score,
                                   !.away_score = info.away_score]
                   ELSE g1
         IN  [games |-> [acc.games EXCEPT ![game.id] = g2],
              updated_count |-> acc.updated_count + 1]

\* the pass that assigns whatever dry_run says
StatusPass_IgnoresDryRun(schedule_data, dry_run, acc, game) ==
    IF game.nba_game_id \notin DOMAIN schedule_data THEN acc
    ELSE LET info == schedule_data[game.nba_game_id]
             status_differs == game.status # info.status
             scores_differ == /\ info.status = "final"
                              /\ \/ game.home_score # info.home_score
                                 \/ game.away_score # info.away_score
             g1 == IF status_differs
                   THEN [game EXCEPT !.status = info.status] ELSE game
             g2 == IF scores_differ
                   THEN [g1 EXCEPT !.home_score = info.home_score,
                                   !.away_score = info.away_score]
                   ELSE g1
         IN  [games |-> [acc.games EXCEPT ![game.id] = g2],
              updated_count |-> IF status_differs \/ scores_differ
                                THEN acc.updated_count + 1
                                ELSE acc.updated_count]

\* One pass of `for game in games_to_update`, on the loop's state: the
\* session's Game objects and updated_count.
StatusPass(schedule_data, dry_run, acc, game) ==
    IF game.nba_game_id \notin DOMAIN schedule_data THEN acc
    ELSE LET info == schedule_data[game.nba_game_id]
             status_differs == game.status # info.status
             scores_differ == /\ info.status = "final"
                              /\ \/ game.home_score # info.home_score
                                 \/ game.away_score # info.away_score
             g1 == IF status_differs /\ ~dry_run
                   THEN [game EXCEPT !.status = info.status] ELSE game
             g2 == IF scores_differ /\ ~dry_run
                   THEN [g1 EXCEPT !.home_score = info.home_score,
                                   !.away_score = info.away_score]
                   ELSE g1
         IN  [games |-> [acc.games EXCEPT ![game.id] = g2],
              updated_count |-> IF status_differs \/ scores_differ
                                THEN acc.updated_count + 1
                                ELSE acc.updated_count]

RECURSIVE StatusLoop(_, _, _, _)
StatusLoop(d, schedule_data, dry_run, n) ==
    IF n = 0 THEN [games |-> d.games, updated_count |-> 0]
    ELSE StatusPass(schedule_data, dry_run,
                    StatusLoop(d, schedule_data, dry_run, n - 1),
                    GamesToUpdate(d)[n])

NoStatusLoop == [dry_run |-> FALSE, fetch |-> "none", rows |-> <<>>,
                 games |-> <<>>, updated_count |-> 0]

\* the exception of fetch_schedule leaves update_game_statuses
ScheduleFetchFailed_Raises(result) == [kind |-> "raised", error |-> "ReadTimeout"]

\* `except Exception as e`: the error is printed and the phase returns 0
ScheduleFetchFailed(result) == [kind |-> "returned", updated_count |-> 0]

\* games_df = fetch_schedule() inside try/except, and the two early returns
StatusesFetch ==
    /\ g_pc = "idle"
    /\ CallerAllows("statuses", g_run, MaxStatusRuns)
    /\ g_run' = g_run + 1
    /\ \E dry_run \in DryRuns, result \in ScheduleResults :
        /\ g_acc' = [NoStatusLoop EXCEPT !.dry_run = dry_run,
                                         !.fetch = result.kind,
                                         !.rows = result.rows]
        /\ IF result.kind = "error"
           THEN /\ g_result' = ScheduleFetchFailed(result)
                /\ g_pc' = IF ScheduleFetchFailed(result).kind = "raised"
                           THEN "raised" ELSE g_pc
           ELSE IF result.rows = <<>>
           THEN /\ g_result' = [kind |-> "returned", updated_count |-> 0]
                /\ UNCHANGED g_pc
           ELSE /\ g_pc' = "loop"
                /\ g_result' = NoPhaseRun
    /\ UNCHANGED <<db, webVars, scoreVars, avgVars, minVars, retryVars, backfillVars, injuryVars, mainVars,
                   statsVars, commits>>

\* schedule_data, the query for the non-final games and the loop over them
StatusesLoop ==
    /\ g_pc = "loop"
    /\ LET schedule_data == ScheduleData(g_acc.rows, Len(g_acc.rows))
           acc == StatusLoop(db, schedule_data, g_acc.dry_run,
                             Len(GamesToUpdate(db)))
       IN  g_acc' = [g_acc EXCEPT !.games = acc.games,
                                  !.updated_count = acc.updated_count]
    /\ g_pc' = "commit"
    /\ UNCHANGED <<db, webVars, scoreVars, avgVars, minVars, retryVars, backfillVars, injuryVars, mainVars,
                   statsVars, commits, g_run, g_result>>

\* `if not dry_run: db.commit()`, the summary and the return. A commit that
\* fails raises out of the function.
StatusesCommit ==
    /\ g_pc = "commit"
    /\ \/ /\ db' = IF g_acc.dry_run THEN db ELSE [db EXCEPT !.games = g_acc.games]
          /\ commits' = IF g_acc.dry_run THEN commits ELSE commits + 1
          /\ g_result' = [kind |-> "returned",
                          updated_count |-> g_acc.updated_count]
          /\ g_pc' = "idle"
       \/ /\ ~g_acc.dry_run
          /\ g_result' = [kind |-> "raised", error |-> "OperationalError"]
          /\ g_pc' = "raised"
          /\ UNCHANGED <<db, commits>>
    /\ UNCHANGED <<webVars, scoreVars, avgVars, minVars, retryVars, backfillVars, injuryVars, mainVars,
                   statsVars, g_run, g_acc>>

\* datetime.now(timezone.utc) at the refresh of a team, later than any stored
\* stats_updated_at
Now == 1

\* one entry of get_all_team_stats
TeamStats(nba_team_id, gen) ==
    [nba_team_id |-> nba_team_id, team_name |-> "team"] @@ TeamMetrics(gen)

\* What fetch_team_stats ends with: an exception, an empty list (which is
\* also what get_all_team_stats returns once its own request failed), both
\* teams, or one team beside a team the store does not hold.
TeamStatsResults ==
    {[kind |-> "error", rows |-> <<>>],
     [kind |-> "data", rows |-> <<>>],
     [kind |-> "data", rows |-> <<TeamStats(NbaTeamId(1), 1),
                                  TeamStats(NbaTeamId(2), 1)>>],
     [kind |-> "data", rows |-> <<TeamStats(NbaTeamId(9), 1),
                                  TeamStats(NbaTeamId(1), 2)>>]}

\* db.query(Team).filter(Team.nba_team_id == nba_team_id).first(), against the
\* session's Team objects; None when there is none
TeamByNbaId(teams, nba_team_id) ==
    LET hits == SelectSeq(QueryAll(teams),
                          LAMBDA t : t.nba_team_id = nba_team_id)
    IN  IF hits = <<>> THEN None ELSE hits[1]

\* a team the store does not hold is inserted
TeamPass_Creates(dry_run, acc, stats) ==
    LET team == TeamByNbaId(acc.teams, stats.nba_team_id)
        new_id == Cardinality(DOMAIN acc.teams) + 1
        metrics == [k \in DOMAIN NoMetrics |-> stats[k]]
    IN  IF team = None
        THEN [acc EXCEPT !.teams = @ @@ (new_id :>
                            ([id |-> new_id, nba_team_id |-> stats.nba_team_id,
                              full_name |-> <<>>, stats_updated_at |-> Now]
                             @@ metrics)),
                         !.updated_count = @ + 1]
        ELSE [acc EXCEPT !.teams[team.id] =
                            [k \in DOMAIN team |->
                                IF k \in DOMAIN NoMetrics THEN stats[k]
                                ELSE IF k = "stats_updated_at" THEN Now
                                ELSE team[k]],
                         !.updated_count = @ + 1]

\* the pass that writes the metrics and leaves stats_updated_at
TeamPass_NoStamp(dry_run, acc, stats) ==
    LET team == TeamByNbaId(acc.teams, stats.nba_team_id)
    IN  IF team = None
        THEN [acc EXCEPT !.not_found_count = @ + 1]
        ELSE [acc EXCEPT
                !.teams[team.id] =
                    IF dry_run THEN team
                    ELSE [k \in DOMAIN team |->
                            IF k \in DOMAIN NoMetrics THEN stats[k]
                            ELSE team[k]],
                !.updated_count = @ + 1]

\* One pass of `for stats in team_stats`, on the loop's state: the session's
\* Team objects, updated_count and not_found_count.
TeamPass(dry_run, acc, stats) ==
    LET team == TeamByNbaId(acc.teams, stats.nba_team_id)
    IN  IF team = None
        THEN [acc EXCEPT !.not_found_count = @ + 1]
        ELSE [acc EXCEPT
                !.teams[team.id] =
                    IF dry_run THEN team
                    ELSE [k \in DOMAIN team |->
                            IF k \in DOMAIN NoMetrics THEN stats[k]
                            ELSE IF k = "stats_updated_at" THEN Now
                            ELSE team[k]],
                !.updated_count = @ + 1]

RECURSIVE TeamLoop(_, _, _, _)
TeamLoop(d, team_stats, dry_run, n) ==
    IF n = 0 THEN [teams |-> d.teams, updated_count |-> 0, not_found_count |-> 0]
    ELSE TeamPass(dry_run, TeamLoop(d, team_stats, dry_run, n - 1), team_stats[n])

NoTeamLoop == [dry_run |-> FALSE, fetch |-> "none", rows |-> <<>>, teams |-> <<>>,
               updated_count |-> 0, not_found_count |-> 0]

\* team_stats = fetch_team_stats() inside try/except, and the two early returns
TeamStatsFetch ==
    /\ ts_pc = "idle"
    /\ CallerAllows("stats", ts_run, MaxStatsRuns)
    /\ ts_run' = ts_run + 1
    /\ \E dry_run \in DryRuns, result \in TeamStatsResults :
        /\ ts_acc' = [NoTeamLoop EXCEPT !.dry_run = dry_run,
                                        !.fetch = result.kind,
                                        !.rows = result.rows]
        /\ IF result.kind = "error" \/ result.rows = <<>>
           THEN /\ ts_result' = [kind |-> "returned", updated_count |-> 0]
                /\ UNCHANGED ts_pc
           ELSE /\ ts_pc' = "loop"
                /\ ts_result' = NoPhaseRun
    /\ UNCHANGED <<db, webVars, scoreVars, avgVars, minVars, retryVars, backfillVars, injuryVars, mainVars,
                   statusVars, commits>>

\* the loop over team_stats
TeamStatsLoop ==
    /\ ts_pc = "loop"
    /\ LET acc == TeamLoop(db, ts_acc.rows, ts_acc.dry_run, Len(ts_acc.rows))
       IN  ts_acc' = [ts_acc EXCEPT !.teams = acc.teams,
                                    !.updated_count = acc.updated_count,
                                    !.not_found_count = acc.not_found_count]
    /\ ts_pc' = "commit"
    /\ UNCHANGED <<db, webVars, scoreVars, avgVars, minVars, retryVars, backfillVars, injuryVars, mainVars,
                   statusVars, commits, ts_run, ts_result>>

\* `if not dry_run: db.commit()` and the return. A commit that fails raises
\* out of the function.
TeamStatsCommit ==
    /\ ts_pc = "commit"
    /\ \/ /\ db' = IF ts_acc.dry_run THEN db ELSE [db EXCEPT !.teams = ts_acc.teams]
          /\ commits' = IF ts_acc.dry_run THEN commits ELSE commits + 1
          /\ ts_result' = [kind |-> "returned",
                           updated_count |-> ts_acc.updated_count]
          /\ ts_pc' = "idle"
       \/ /\ ~ts_acc.dry_run
          /\ ts_result' = [kind |-> "raised", error |-> "OperationalError"]
          /\ ts_pc' = "raised"
          /\ UNCHANGED <<db, commits>>
    /\ UNCHANGED <<webVars, scoreVars, avgVars, minVars, retryVars, backfillVars, injuryVars, mainVars,
                   statusVars, ts_run, ts_acc>>

----------------------------------------------------------------------------
(* The daily update script: update_injuries and main                       *)
(* (scripts/daily_update.py)                                               *)

\* the backfill placed before the status update
Phases_ScoresFirst == <<"scores", "statuses", "stats", "injuries">>

\* the four phases in the order main() goes through them
Phases == <<"statuses", "scores", "stats", "injuries">>

\* the command lines: any of the four --*-only flags, with or without --dry-run
ArgSets ==
    [games_only : BOOLEAN, scores_only : BOOLEAN, stats_only : BOOLEAN,
     injuries_only : BOOLEAN, dry_run : BOOLEAN]

NoArgs == [games_only |-> FALSE, scores_only |-> FALSE, stats_only |-> FALSE,
           injuries_only |-> FALSE, dry_run |-> FALSE]

\* run_all = not any([...])
RunAll(args) ==
    ~(args.games_only \/ args.scores_only \/ args.stats_only
      \/ args.injuries_only)

\* `if run_all or args.<phase>_only`
Requested(args, k) ==
    \/ RunAll(args)
    \/ k = 1 /\ args.games_only
    \/ k = 2 /\ args.scores_only
    \/ k = 3 /\ args.stats_only
    \/ k = 4 /\ args.injuries_only

\* the position of main() once the first k phases are behind it: the next
\* requested phase, or the end of the try block
RECURSIVE After(_, _)
After(args, k) ==
    IF k >= Len(Phases) THEN "done"
    ELSE IF Requested(args, k + 1) THEN Phases[k + 1]
    ELSE After(args, k + 1)

PhaseIndex(phase) == CHOOSE k \in DOMAIN Phases : Phases[k] = phase

\* the except clause is passed over and main() goes on with the next phase
OnException_Continue(args, phase) == After(args, PhaseIndex(phase))

\* `except Exception`: db.rollback() and sys.exit(1)
OnException(args, phase) == "exit1"

\* a phase function was left by an exception
Raised(phase) ==
    CASE phase = "statuses" -> g_pc = "raised"
      [] phase = "scores"   -> b_pc = "raised"
      [] phase = "stats"    -> ts_pc = "raised"
      [] phase = "injuries" -> FALSE

\* a phase function has returned to main()
HasReturned(phase) ==
    CASE phase = "statuses" -> g_pc = "idle" /\ g_result.kind = "returned"
      [] phase = "scores"   -> b_pc = "idle" /\ b_hist # <<>>
      [] phase = "stats"    -> ts_pc = "idle" /\ ts_result.kind = "returned"
      [] phase = "injuries" -> u_result # None

\* db.rollback() and db.close(): the session forgets the objects it holds and
\* everything not committed
SessionReset ==
    /\ pending' = <<>>
    /\ g_acc' = [g_acc EXCEPT !.games = <<>>]
    /\ ts_acc' = [ts_acc EXCEPT !.teams = <<>>]
    /\ i_acc' = [i_acc EXCEPT !.objs = <<>>]

\* the arguments are parsed, db = get_db(), and the try block is entered
MainStart ==
    /\ m_pc = "start"
    /\ m_pc' = After(m_args, 0)
    /\ m_trace' = IF After(m_args, 0) = "done" THEN m_trace
                  ELSE Append(m_trace, After(m_args, 0))
    /\ UNCHANGED <<db, webVars, scoreVars, avgVars, minVars, retryVars, backfillVars, injuryVars, statusVars,
                   statsVars, commits, m_args, m_db0, u_result>>

\* a phase has returned: main() goes on to the next requested phase
MainNext ==
    /\ m_pc \in Elems(Phases)
    /\ HasReturned(m_pc)
    /\ LET next == After(m_args, PhaseIndex(m_pc))
       IN  /\ m_pc' = next
           /\ m_trace' = IF next = "done" THEN m_trace ELSE Append(m_trace, next)
    /\ UNCHANGED <<db, webVars, scoreVars, avgVars, minVars, retryVars, backfillVars, injuryVars, statusVars,
                   statsVars, commits, m_args, m_db0, u_result>>

\* an exception has left a phase: the except clause, then `finally: db.close()`
MainFatal ==
    /\ m_pc \in Elems(Phases)
    /\ Raised(m_pc)
    /\ LET next == OnException(m_args, m_pc)
       IN  /\ m_pc' = next
           /\ m_trace' = IF next \in {"done", "exit1"} THEN m_trace
                         ELSE Append(m_trace, next)
           /\ IF next = "exit1" THEN SessionReset
              ELSE UNCHANGED <<pending, g_acc, ts_acc, i_acc>>
    /\ UNCHANGED <<db, webVars, scoreVars, avgVars, minVars, retryVars, g_pc, g_run, g_result, ts_pc, ts_run, ts_result,
                   b_pc, b_run, bf, ext_box, ext_logs, b_hist,
                   i_pc, i_run, i_pre, i_injuries, i_result,
                   commits, m_args, m_db0, u_result>>

\* the try block is through: "Done!", then `finally: db.close()`
MainDone ==
    /\ m_pc = "done"
    /\ m_pc' = "exit0"
    /\ SessionReset
    /\ UNCHANGED <<db, webVars, scoreVars, avgVars, minVars, retryVars, g_pc, g_run, g_result, ts_pc, ts_run, ts_result,
                   b_pc, b_run, bf, ext_box, ext_logs, b_hist,
                   i_pc, i_run, i_pre, i_injuries, i_result,
                   commits, m_args, m_trace, m_db0, u_result>>

\* update_injuries(db, dry_run=True): the early return
UpdateInjuriesDry ==
    /\ m_pc = "injuries"
    /\ m_args.dry_run
    /\ u_result = None
    /\ u_result' = [updated |-> 0, cleared |-> 0, not_found |-> <<>>]
    /\ UNCHANGED <<db, webVars, scoreVars, avgVars, minVars, retryVars, backfillVars, injuryVars, statusVars,
                   statsVars, commits, m_pc, m_args, m_trace, m_db0>>

\* update_injuries: update_player_injuries has returned, or has raised and the
\* except clause makes a result of the exception
UpdateInjuriesReturn ==
    /\ m_pc = "injuries"
    /\ u_result = None
    /\ i_pc = "idle"
    /\ i_result.kind \in {"returned", "raised"}
    /\ u_result' = IF i_result.kind = "returned"
                   THEN [k \in DOMAIN i_result \ {"kind"} |-> i_result[k]]
                   ELSE [updated |-> 0, cleared |-> 0, not_found |-> <<>>,
                         error |-> i_result.error]
    /\ UNCHANGED <<db, webVars, scoreVars, avgVars, minVars, retryVars, backfillVars, injuryVars, statusVars,
                   statsVars, commits, m_pc, m_args, m_trace, m_db0>>

\* the script is not run as a whole
MainOff ==
    /\ m_pc = "off"
    /\ m_args = NoArgs
    /\ m_trace = <<>>
    /\ m_db0 = <<>>
    /\ u_result = None

StatusesOff ==
    /\ g_pc = "off"
    /\ g_run = 0
    /\ g_acc = NoStatusLoop
    /\ g_result = NoPhaseRun

StatusesInit ==
    /\ g_pc = "idle"
    /\ g_run = 0
    /\ g_acc = NoStatusLoop
    /\ g_result = NoPhaseRun

TeamStatsOff ==
    /\ ts_pc = "off"
    /\ ts_run = 0
    /\ ts_acc = NoTeamLoop
    /\ ts_result = NoPhaseRun

TeamStatsInit ==
    /\ ts_pc = "idle"
    /\ ts_run = 0
    /\ ts_acc = NoTeamLoop
    /\ ts_result = NoPhaseRun

\* no phase of the script runs
DailyOff ==
    /\ MainOff /\ StatusesOff /\ TeamStatsOff /\ commits = 0 /\ ScoreOff
    /\ AveragesOff /\ MinutesOff

----------------------------------------------------------------------------
(* The web process: specifications *)

CacheIdle ==
    /\ dbWrites = 0
    /\ app_cache = EmptyCache
    /\ lpc = "idle"
    /\ caller = "none"
    /\ l_games = <<>>
    /\ l_players = <<>>
    /\ l_i = 1
    /\ pre = EmptyCache
    /\ outcome = "none"
    /\ response = [status |-> "none"]
    /\ started = FALSE
    /\ startup_exc = None

\* the web process starts with DATABASE_URL set or not
CacheInit ==
    /\ db = InitialDb
    /\ SessionLocal \in {"sessionmaker", "None"}
    /\ CacheIdle

ReaderInit ==
    /\ rpc = "idle"
    /\ r_obs = NoObs
    /\ r_whole = {}

Init ==
    /\ CacheInit /\ ReaderInit /\ RetryOff /\ BackfillOff /\ InjuriesOff
    /\ DailyOff

LoadStep ==
    \/ LoadTeams
    \/ LoadGames
    \/ GroupGame
    \/ LoadPlayers
    \/ IndexById
    \/ IndexByNbaId
    \/ ResetByTeam
    \/ GroupPlayer
    \/ SetLoaded
    \/ QueryRaises

Next ==
    \/ StartupEvent
    \/ RefreshCache
    \/ LoadStep
    \/ Clear
    \/ DbWrite(MaxDbWrites)

Spec == Init /\ [][Next]_vars

SnapshotStep ==
    \/ SnapshotReadGames
    \/ SnapshotReadPlayers
    \/ SnapshotReadTeams

NextReaders ==
    \/ StartupEvent
    \/ RefreshCache
    \/ LoadStep
    \/ DbWrite(MaxDbWritesReaders)
    \/ SnapshotStep

SpecReaders == Init /\ [][NextReaders]_vars

----------------------------------------------------------------------------
(* The daily update script: specifications *)

\* the script gets its session from get_db(), which needs the factory
ScriptBoot == SessionLocal = "sessionmaker"

InitRetry ==
    /\ db = InitialDb
    /\ ScriptBoot /\ CacheIdle /\ ReaderInit /\ RetryInit /\ BackfillOff
    /\ InjuriesOff /\ DailyOff

NextRetry ==
    \/ WrapperAttempt
    \/ SelfRetryAttempt
    \/ ScrapeEspnInjuries

\* one external fetch, from the call to its return or raise
SpecRetry == InitRetry /\ [][NextRetry]_vars

InitBackfill ==
    /\ db \in {d \in BackfillDbs : OneGameADay(d.games)}
    /\ ScriptBoot /\ CacheIdle /\ ReaderInit /\ RetryOff /\ BackfillInit
    /\ InjuriesOff /\ DailyOff

NextBackfill ==
    \/ BackfillStart
    \/ FetchBoxScores
    \/ BoxScoreLine
    \/ CommitGame
    \/ StartFallback
    \/ FetchPlayerLogs
    \/ GameLogEntry
    \/ CommitPlayer
    \/ BackfillReturn

\* runs of populate_ttfl_scores, one after another, each with its own session
SpecBackfill == InitBackfill /\ [][NextBackfill]_vars

InitResume ==
    /\ db \in {d \in BackfillDbs : OneGameADay(d.games)}
    /\ ScriptBoot /\ CacheIdle /\ ReaderInit /\ RetryOff /\ BackfillInitKnown
    /\ InjuriesOff /\ DailyOff

NextResume == NextBackfill \/ Interrupt

\* runs of populate_ttfl_scores against fixed provider data, any of which may
\* be stopped midway and followed by another
SpecResume == InitResume /\ [][NextResume]_vars

InitInjuries ==
    /\ db \in InjuryDbs
    /\ ScriptBoot /\ CacheIdle /\ ReaderInit /\ RetryOff /\ BackfillOff
    /\ InjuriesInit /\ DailyOff

NextInjuries ==
    \/ InjuriesFetch
    \/ InjuriesLoop
    \/ InjuriesCommit

\* runs of update_player_injuries, one after another, the page changing between
SpecInjuries == InitInjuries /\ [][NextInjuries]_vars

InitMain ==
    /\ db \in MainDbs
    /\ ScriptBoot /\ CacheIdle /\ ReaderInit /\ RetryOff
    /\ BackfillInit /\ InjuriesInit /\ StatusesInit /\ TeamStatsInit
    /\ m_pc = "start"
    /\ m_args \in ArgSets
    /\ m_trace = <<>>
    /\ m_db0 = db
    /\ u_result = None
    /\ commits = 0
    /\ ScoreOff /\ AveragesOff /\ MinutesOff

NextMain ==
    \/ MainStart
    \/ StatusesFetch
    \/ StatusesLoop
    \/ StatusesCommit
    \/ NextBackfill
    \/ TeamStatsFetch
    \/ TeamStatsLoop
    \/ TeamStatsCommit
    \/ UpdateInjuriesDry
    \/ NextInjuries
    \/ UpdateInjuriesReturn
    \/ MainNext
    \/ MainFatal
    \/ MainDone

\* one run of the script, from the command line to the exit
SpecMain == InitMain /\ [][NextMain]_vars

\* the number of phase runs in a sequence of runs
MaxSyncRuns == 3

\* a phase function is not running: it has not started, has returned, or was
\* left by an exception
Resting(pc) == pc \in {"idle", "raised"}

\* a running phase goes on; a new run starts while the sequence is not full
MayRun(pc) == pc # "idle" \/ g_run + b_run + ts_run + i_run < MaxSyncRuns

InitSync ==
    /\ db \in {d \in MainDbs : /\ d.players[2].injury_status = NoneStr
                              /\ d.games[2].game_date >= RegularSeasonStart}
    /\ ScriptBoot /\ CacheIdle /\ ReaderInit /\ RetryOff
    /\ BackfillInit /\ InjuriesInit /\ StatusesInit /\ TeamStatsInit
    /\ MainOff /\ commits = 0
    /\ ScoreOff /\ AveragesOff /\ MinutesOff

NextSync ==
    \/ /\ Resting(b_pc) /\ Resting(ts_pc) /\ Resting(i_pc) /\ MayRun(g_pc)
       /\ StatusesFetch \/ StatusesLoop \/ StatusesCommit
    \/ /\ Resting(g_pc) /\ Resting(ts_pc) /\ Resting(i_pc) /\ MayRun(b_pc)
       /\ NextBackfill \/ ProviderChanges
    \/ /\ Resting(g_pc) /\ Resting(b_pc) /\ Resting(i_pc) /\ MayRun(ts_pc)
       /\ TeamStatsFetch \/ TeamStatsLoop \/ TeamStatsCommit
    \/ /\ Resting(g_pc) /\ Resting(b_pc) /\ Resting(ts_pc) /\ MayRun(i_pc)
       /\ NextInjuries

\* the phases called one at a time (one orchestrator at a time), each with its
\* own session, in any order
SpecSync == InitSync /\ [][NextSync]_vars

\* Rows stored before the minutes column existed: both players have a row for
\* game 2, without minutes.
LegacyScores ==
    {[id |-> 1, player_id |-> 1, game_id |-> 2, ttfl_score |-> 20,
      minutes |-> NoScore],
     [id |-> 2, player_id |-> 2, game_id |-> 2, ttfl_score |-> 10,
      minutes |-> NoScore]}

MinutesDbs ==
    {[d EXCEPT !.scores = LegacyScores] :
        d \in {b \in BackfillDbs : /\ OneGameADay(b.games)
                                  /\ b.games[2].status = "final"
                                  /\ b.games[2].home_team_id = 1
                                  /\ b.players[2].is_active
                                  /\ b.players[2].team_id = 1}}

InitMinutes ==
    /\ db \in MinutesDbs
    /\ ScriptBoot /\ CacheIdle /\ ReaderInit /\ RetryOff /\ BackfillInit
    /\ InjuriesOff
    /\ MainOff /\ StatusesOff /\ TeamStatsOff /\ commits = 0 /\ ScoreOff
    /\ MinutesInit
    /\ a_pc = "idle"
    /\ a_today = 23 + CutoffDays
    /\ a_ids = <<>>
    /\ a_result = EmptyDict

\* the number of script runs in a sequence
MaxScriptRuns == 2

\* a running script goes on; a new run starts while the sequence is not full
MayBackfill(pc) == pc # "idle" \/ b_run + pm_run < MaxScriptRuns

NextMinutes ==
    \/ /\ Resting(pm_pc) /\ MayBackfill(b_pc)
       /\ NextBackfill
    \/ /\ Resting(b_pc) /\ MayBackfill(pm_pc)
       /\ MinutesStart \/ MinutesPlayer \/ MinutesDone
    \/ /\ Resting(b_pc) /\ Resting(pm_pc)
       /\ BatchCalculateAverages

\* runs of populate_ttfl_scores and of populate_minutes against one database,
\* one script at a time, and requests for the averages between the runs
SpecMinutes == InitMinutes /\ [][NextMinutes]_vars

InitScore ==
    /\ db = InitialDb
    /\ ScriptBoot /\ CacheIdle /\ ReaderInit /\ RetryOff /\ BackfillOff
    /\ InjuriesOff /\ MainOff /\ StatusesOff /\ TeamStatsOff /\ commits = 0
    /\ ScoreInit /\ AveragesOff /\ MinutesOff

NextScore ==
    \/ ScoreCall
    \/ ScoreCallRaised

\* calculate_ttfl_score called with a line, then with the line one count up
SpecScore == InitScore /\ [][NextScore]_vars

InitAverages ==
    /\ db \in AveragesDbs
    /\ ScriptBoot /\ CacheIdle /\ ReaderInit /\ RetryOff /\ BackfillOff
    /\ InjuriesOff /\ MainOff /\ StatusesOff /\ TeamStatsOff /\ commits = 0
    /\ ScoreOff /\ AveragesInit /\ MinutesOff

NextAverages == BatchCalculateAverages

SpecAverages == InitAverages /\ [][NextAverages]_vars

InitCompare ==
    /\ db \in ComparedDbs
    /\ ScriptBoot /\ CacheIdle /\ ReaderInit /\ RetryOff /\ BackfillOff
    /\ InjuriesOff /\ MainOff /\ StatusesOff /\ TeamStatsOff /\ commits = 0
    /\ ScoreOff /\ AveragesInit /\ MinutesOff

NextCompare ==
    \/ BatchCalculateAverages
    \/ RouterBatchCalculateAverages
    \/ CalculatePlayerAverages

\* the batch computation, its copy and the per-player computations, called in
\* any order over one stored history
SpecCompare == InitCompare /\ [][NextCompare]_vars

----------------------------------------------------------------------------
(* Claims about the cache *)

CacheKeys == 0..3

\* every lookup AppCache offers, for every key
Lookups(c) ==
    [team           |-> [k \in CacheKeys |-> get_team(c, k)],
     games_for_date |-> [k \in CacheKeys |-> get_games_for_date(c, k)],
     player_by_id   |-> [k \in CacheKeys |-> get_player_by_id(c, k)],
     player_by_nba  |-> [k \in 10..13 |-> get_player_by_nba_id(c, k)],
     active_by_team |-> [k \in CacheKeys |-> get_players_by_team(c, k, TRUE)],
     all_by_team    |-> [k \in CacheKeys |-> get_players_by_team(c, k, FALSE)]]

\* C1: when load_schedule raises on a cache that holds a loaded snapshot, every
\* lookup returns afterwards what it returned before the call, for every key.
C1_FailedReloadKeepsLookups ==
    (lpc = "idle" /\ outcome = "raised" /\ pre.loaded)
        => Lookups(app_cache) = Lookups(pre)

\* the three indexes get_snapshot reads
Read3(c) == [games_by_date |-> c.games_by_date,
             players_by_id |-> c.players_by_id,
             teams_by_id   |-> c.teams_by_id]

\* the complete snapshots a request may have seen: those that existed while it
\* ran and, with a load on its way, the one that load builds from the rows
SnapshotsFor == r_whole \cup (IF lpc = "idle" THEN {} ELSE {FullLoad(db)})

\* C2: a get_snapshot request running beside load_schedule reads all three
\* indexes from one complete snapshot, the old one or the new one. The last
\* read (teams_by_id) can happen in any state where rpc = "teams", so the three
\* reads are judged there.
C2_ReaderSeesOneSnapshot ==
    rpc = "teams" => \E c \in SnapshotsFor : SnapshotObserved = Read3(c)

\* C9: when load_schedule raises on a cache that was never loaded, the cache is
\* again as AppCache.__init__ left it.
C9_FailedFirstLoadLeavesEmpty ==
    (lpc = "idle" /\ outcome = "raised" /\ pre = EmptyCache)
        => app_cache = EmptyCache

InById(c, p) == \E k \in DOMAIN c.players_by_id : c.players_by_id[k] = p

InByNbaId(c, p) ==
    /\ p.nba_player_id \in DOMAIN c.players_by_nba_id
    /\ c.players_by_nba_id[p.nba_player_id] = p

InByTeam(c, p) ==
    /\ p.team_id \in DOMAIN c.players_by_team
    /\ p \in Elems(c.players_by_team[p.team_id])

IndexedPlayers(c) ==
    Values(c.players_by_id) \cup Values(c.players_by_nba_id)
    \cup UNION {Elems(c.players_by_team[t]) : t \in DOMAIN c.players_by_team}

\* C10: between operations on the cache (loads that returned, loads that
\* raised, clear()), a player held by one of the three player indexes is held
\* by all three: by players_by_id, by players_by_nba_id under its
\* nba_player_id, and by players_by_team under its team_id.
C10_PlayerIndexesConsistent ==
    lpc = "idle" =>
        \A p \in IndexedPlayers(app_cache) :
            /\ InById(app_cache, p)
            /\ InByNbaId(app_cache, p)
            /\ InByTeam(app_cache, p)

\* a reload raised after the rows moved on: the cache still holds the players
\* of the earlier load, on two teams
C10_Witness ==
    /\ lpc = "idle"
    /\ outcome = "raised"
    /\ app_cache.loaded
    /\ Cardinality(DOMAIN app_cache.players_by_team) = 2
    /\ app_cache.players_by_id # FullLoad(db).players_by_id

----------------------------------------------------------------------------
(* Claims about retry_on_timeout and the fetches *)

\* the message holds 'timeout' or 'timed out', whatever the case of its letters
MentionsTimeout(msg) ==
    \E i \in DOMAIN msg : \E w \in {<<"t","i","m","e","o","u","t">>,
                                   <<"t","i","m","e","d"," ","o","u","t">>} :
        /\ i + Len(w) - 1 <= Len(msg)
        /\ \A k \in 1..Len(w) : Lower(<<msg[i + k - 1]>>) = <<w[k]>>

TimedOut(o) == o.kind = "error" /\ MentionsTimeout(o.msg)

\* C5: a function wrapped by retry_on_timeout(max_retries=N) is invoked at most
\* N times; the first invocation that succeeds is the last one and its result
\* is what the wrapper returns; when all N invocations time out the wrapper
\* raises the error of the N-th.
C5_AtMostNInvocations ==
    t_site \in Decorated =>
        LET n == Len(t_invs)
        IN  /\ n <= t_max_retries
            /\ \A i \in 1..(n - 1) : t_invs[i].kind = "error"
            /\ (n > 0 /\ t_invs[n].kind # "error") =>
                   /\ t_pc = "returned"
                   /\ t_result = [inv |-> n, value |-> t_invs[n].kind]
            /\ t_pc = "returned" => (n > 0 /\ t_invs[n].kind # "error")
            /\ (n = t_max_retries /\ \A i \in 1..n : TimedOut(t_invs[i])) =>
                   /\ t_pc = "raised"
                   /\ t_exc = [inv |-> n, msg |-> t_invs[n].msg]

\* the third invocation of four allowed succeeded after two timeouts
C5_Witness ==
    /\ t_site = "wrapped"
    /\ t_max_retries = 4
    /\ t_pc = "returned"
    /\ Len(t_invs) = 3
    /\ TimedOut(t_invs[1]) /\ TimedOut(t_invs[2])

\* C6: an invocation that fails with a message holding neither 'timeout' nor
\* 'timed out' is the last one: its error is raised to the caller at once,
\* with no sleep after it, however many attempts remain.
C6_OtherErrorsPropagateAtOnce ==
    t_site \in Decorated =>
        \A i \in 1..Len(t_invs) :
            (t_invs[i].kind = "error" /\ ~MentionsTimeout(t_invs[i].msg)) =>
                /\ i = Len(t_invs)
                /\ t_pc = "raised"
                /\ t_exc = [inv |-> i, msg |-> t_invs[i].msg]
                /\ Len(t_sleeps) = i - 1

\* a non-timeout failure on the second of four attempts
C6_Witness ==
    /\ t_site = "wrapped"
    /\ t_max_retries = 4
    /\ Len(t_invs) = 2
    /\ TimedOut(t_invs[1])
    /\ t_invs[2].kind = "error" /\ ~MentionsTimeout(t_invs[2].msg)
    /\ t_pc = "raised"

\* C7: a call that times out on all N attempts sleeps N-1 times, for
\* base_delay * 2^k seconds, k = 0..N-2 in that order, and not after the last
\* failed attempt.
C7_NoSleepAfterLastAttempt ==
    (/\ t_site \in Decorated
     /\ t_pc = "raised"
     /\ Len(t_invs) = t_max_retries
     /\ \A i \in 1..Len(t_invs) : TimedOut(t_invs[i]))
        => t_sleeps = [k \in 1..(t_max_retries - 1) |->
                          t_base_delay * Pow2(k - 1)]

\* C8: in every fetch of a phase, a request that times out is retried after a
\* backoff sleep before the fetch is given up.
C8_PhaseTimeoutsAreRetried ==
    (/\ t_site \in PhaseSites
     /\ t_pc \in {"returned", "raised"}
     /\ TimedOut(t_calls[1]))
        => (Len(t_calls) >= 2 /\ Len(t_sleeps) >= 1)

----------------------------------------------------------------------------
(* Claims about populate_ttfl_scores *)

SamePair(r1, r2) == r1.player_id = r2.player_id /\ r1.game_id = r2.game_id

\* C3: whatever the provider returns (the same player twice in a box score,
\* two log entries on one date), no (player_id, game_id) pair has more than one
\* TTFLScore row, and the existence check before each insert is what sees to
\* it: a row the check lets through to the session repeats the pair of no
\* stored row and of no row let through before it.
C3_ExistenceCheckKeepsPairsUnique ==
    /\ \A r1, r2 \in db.scores : SamePair(r1, r2) => r1 = r2
    /\ \A i \in DOMAIN pending :
          /\ \A r \in db.scores : ~SamePair(pending[i], r)
          /\ \A j \in DOMAIN pending : SamePair(pending[i], pending[j]) => i = j

\* the runs that returned without --dry-run
RealRuns == {k \in DOMAIN b_hist : ~b_hist[k].dry_run}

----------------------------------------------------------------------------
(* Claims about startup *)

\* C11: no exception leaves startup_event, whether the session factory is
\* missing or a query of load_schedule raises: startup completes and the
\* routes are served.
C11_StartupNeverRaises ==
    /\ startup_exc = None
    /\ (caller = "startup" /\ lpc = "idle" /\ outcome = "raised") => started

----------------------------------------------------------------------------
(* Claims about the injury refresh *)

\* the last run of update_player_injuries is over
InjuryRunOver == i_pc = "idle" /\ i_run > 0

\* the players that had a status before the run and whose normalized name is
\* the normalized name of no record of the list
SetAndUnmatched ==
    {p \in DOMAIN i_pre :
        /\ i_pre[p].injury_status # NoneStr
        /\ \A i \in DOMAIN i_injuries :
              normalize_name(i_injuries[i].name) # normalize_name(i_pre[p].name)}

\* C12: after a run with a non-empty list, every stored player that had
\* injury_status set and matches no record has the three injury fields None,
\* and these players, and no others, make up the count 'cleared'.
C12_UnmatchedPlayersCleared ==
    (InjuryRunOver /\ i_injuries # <<>> /\ SetAndUnmatched # {}) =>
        /\ \A p \in SetAndUnmatched :
              /\ db.players[p].injury_status = NoneStr
              /\ db.players[p].injury_return_date = NoneStr
        /\ i_result.kind = "returned"
        /\ i_result.cleared = Cardinality(SetAndUnmatched)
        /\ i_result.updated <= Cardinality(DOMAIN i_pre \ SetAndUnmatched)
        /\ \A p \in SetAndUnmatched :
              i_acc.objs[p].has_details /\ i_acc.objs[p].injury_details = NoneStr

\* C13: when the fetch returns an empty list the stored players are left as
\* they were, nothing is committed, and the result is updated = 0,
\* cleared = 0 with the error marker.
C13_EmptyFetchTouchesNothing ==
    (InjuryRunOver /\ i_injuries = <<>>) =>
        /\ db.players = i_pre
        /\ i_result = [kind |-> "returned", updated |-> 0, cleared |-> 0,
                       not_found |-> <<>>, error |-> "No injury data fetched"]

\* the second run fetched nothing while a player had a status from the first
C13_Witness ==
    /\ InjuryRunOver
    /\ i_run = 2
    /\ i_injuries = <<>>
    /\ \E p \in DOMAIN db.players : db.players[p].injury_status # NoneStr

----------------------------------------------------------------------------
(* The daily update script as a whole *)

\* the session holds a change that is not committed: a new row, or an object
\* that differs from its stored row
SessionDirty ==
    \/ pending # <<>>
    \/ g_acc.games # <<>> /\ g_acc.games # db.games
    \/ ts_acc.teams # <<>> /\ ts_acc.teams # db.teams
    \/ /\ i_acc.objs # <<>>
       /\ \E p \in DOMAIN i_acc.objs : i_acc.objs[p].row # db.players[p]

\* C14: with --dry-run no phase changes a field of a stored game, score, team
\* or player, adds a row or commits: at every point of the run the durable
\* rows are those of its start, nothing was committed and the session holds
\* no change.
C14_DryRunChangesNothing ==
    (m_pc # "off" /\ m_args.dry_run) =>
        /\ db = m_db0
        /\ commits = 0
        /\ ~SessionDirty

\* a dry run of all four phases is over; the schedule had a game to update,
\* a box score was read and team figures were received
C14_Witness ==
    /\ m_pc = "exit0"
    /\ m_args.dry_run
    /\ m_trace = Phases
    /\ g_result.updated_count > 0
    /\ b_hist # <<>> /\ b_hist[1].ret[1] > 0
    /\ ts_result.updated_count > 0
    /\ u_result # None

\* C15: for the same stored rows and the same provider data a phase called
\* with dry_run=True reports the counts the call with dry_run=False reports:
\* games updated, games processed and scores added, teams updated, injuries
\* updated and cleared. A dry run changes no stored row, so the run after it
\* starts from the same rows, and the provider answers it as it did before.
C15_DryRunReportsSameCounts ==
    /\ \A i \in 1..(Len(b_hist) - 1) :
          (b_hist[i].dry_run /\ ~b_hist[i + 1].dry_run) =>
              b_hist[i].ret = b_hist[i + 1].ret
    /\ (g_result.kind = "returned" /\ g_acc.dry_run) =>
          g_result.updated_count =
              StatusLoop(db, ScheduleData(g_acc.rows, Len(g_acc.rows)), FALSE,
                         Len(GamesToUpdate(db))).updated_count
    /\ (ts_result.kind = "returned" /\ ts_acc.dry_run) =>
          ts_result.updated_count =
              TeamLoop(db, ts_acc.rows, FALSE, Len(ts_acc.rows)).updated_count
    /\ (m_pc # "off" /\ m_args.dry_run /\ u_result # None) =>
          \A injuries \in InjuryLists :
              LET acc == PlayerLoop(db, injuries, Cardinality(DOMAIN db.players))
              IN  (~NoData(injuries) /\ acc.raised = "") =>
                      /\ u_result.updated = acc.updated
                      /\ u_result.cleared = acc.cleared

\* the phases the command line asks for, in order
RequestedPhases == SelectSeq(Phases, LAMBDA p : Requested(m_args, PhaseIndex(p)))

\* a request to the provider failed inside the phase: the schedule, a box
\* score or a game log, the team figures, the injury page (which then reads
\* as an empty list)
ProviderFailed(phase) ==
    CASE phase = "statuses" -> g_acc.fetch = "error"
      [] phase = "scores"   ->
            \/ \E k \in DOMAIN ext_box : ext_box[k].kind = "error"
            \/ \E k \in DOMAIN ext_logs : ext_logs[k].kind = "error"
      [] phase = "stats"    -> ts_acc.fetch = "error"
      [] phase = "injuries" -> i_run > 0 /\ i_injuries = <<>>

\* a storage operation raised inside a phase: a commit that failed
StorageFailed(phase) ==
    CASE phase = "statuses" -> g_result = [kind |-> "raised",
                                           error |-> "OperationalError"]
      [] phase = "scores"   -> b_pc = "raised"
      [] phase = "stats"    -> ts_result = [kind |-> "raised",
                                            error |-> "OperationalError"]
      [] phase = "injuries" -> i_result = [kind |-> "raised",
                                           error |-> "OperationalError"]

\* C16: a provider failure inside a requested phase is captured in the phase:
\* the phase is not left by an exception for it, and when main() has ended,
\* every requested phase was called, in order, unless a storage operation
\* failed.
C16_ProviderFailureStaysInPhase ==
    \A k \in DOMAIN Phases :
        (m_pc # "off" /\ ProviderFailed(Phases[k])) =>
            /\ Raised(Phases[k]) => StorageFailed(Phases[k])
            /\ m_pc \in {"exit0", "exit1"} =>
                  \/ m_trace = RequestedPhases
                  \/ \E j \in DOMAIN Phases : StorageFailed(Phases[j])

\* all four phases ran to the end of main() although the schedule request, a
\* box score request and the team figures request failed and the injury page
\* gave nothing
C16_Witness ==
    /\ m_pc = "exit0"
    /\ ~m_args.dry_run
    /\ m_trace = Phases
    /\ \A k \in DOMAIN Phases : ProviderFailed(Phases[k])

\* a storage operation has raised inside some phase
SomeStorageFailed == \E k \in DOMAIN Phases : StorageFailed(Phases[k])

\* C17: once a storage operation has raised inside a phase, main() calls no
\* further phase and the durable rows stay as the last commit before the
\* failure left them: what was committed earlier remains, and nothing of the
\* failing phase is written later. When main() has ended, the session holds
\* no uncommitted change; a failure in one of the first three phases ends
\* main() with exit status 1.
C17_StorageFailureAbortsRun ==
    /\ [][SomeStorageFailed' => (db' = db /\ m_trace' = m_trace)]_vars
    /\ [](SomeStorageFailed =>
            /\ m_pc \in {"exit0", "exit1"} => ~SessionDirty
            /\ m_pc = "exit0" => StorageFailed("injuries")
            /\ m_pc = "exit1" => m_trace[Len(m_trace)] # "injuries")

\* the status update was committed and the backfill committed the rows of one
\* game before the commit for the next game failed; main() has exited with
\* the committed rows in place and the phases after the backfill not called
C17_Witness ==
    /\ m_pc = "exit1"
    /\ StorageFailed("scores")
    /\ m_trace = <<"statuses", "scores">>
    /\ RunAll(m_args)
    /\ db.games # m_db0.games
    /\ db.scores # {}
    /\ commits = 2

\* the identifying column of every row of a table, by primary key
Identities(table, column) == [k \in DOMAIN table |-> table[k][column]]

\* the indexes of the external records of a phase that name a game, player or
\* team the store does not hold
UnknownRecords(phase) ==
    CASE phase = "statuses" ->
            {i \in DOMAIN g_acc.rows :
                \A g \in Values(db.games) : g.nba_game_id # g_acc.rows[i].gameId}
      [] phase = "scores"   ->
            {<<k, i>> \in UNION {{k} \X DOMAIN ext_box[k].rows : k \in DOMAIN ext_box} :
                \A p \in Values(db.players) :
                    p.nba_player_id # ext_box[k].rows[i].nba_player_id}
      [] phase = "stats"    ->
            {i \in DOMAIN ts_acc.rows :
                \A t \in Values(db.teams) :
                    t.nba_team_id # ts_acc.rows[i].nba_team_id}
      [] phase = "injuries" ->
            {i \in DOMAIN i_injuries :
                \A p \in Values(db.players) :
                    normalize_name(p.name) # normalize_name(i_injuries[i].name)}

\* an exception has left the phase function
LeftByException(phase) ==
    IF phase = "injuries" THEN i_result.kind = "raised" ELSE Raised(phase)

\* C18: no phase creates a game, player or team: at every point of a run the
\* stored games, players and teams, and those the session holds, are the
\* ones of its start. A record of the provider that names a game, player or
\* team the store does not hold is passed over: the phase is not left by
\* an exception for it, update_team_stats counts it as not found and
\* update_player_injuries lists it as not found.
C18_NoPhaseCreatesRows ==
    m_pc # "off" =>
        /\ Identities(db.games, "nba_game_id") = Identities(m_db0.games, "nba_game_id")
        /\ Identities(db.players, "nba_player_id")
              = Identities(m_db0.players, "nba_player_id")
        /\ Identities(db.teams, "nba_team_id") = Identities(m_db0.teams, "nba_team_id")
        /\ g_acc.games # <<>> => DOMAIN g_acc.games = DOMAIN m_db0.games
        /\ ts_acc.teams # <<>> => DOMAIN ts_acc.teams = DOMAIN m_db0.teams
        /\ i_acc.objs # <<>> => DOMAIN i_acc.objs = DOMAIN m_db0.players
        /\ \A k \in DOMAIN Phases :
              (UnknownRecords(Phases[k]) # {} /\ LeftByException(Phases[k]))
                  => StorageFailed(Phases[k])
        /\ ts_pc = "commit" =>
              ts_acc.not_found_count = Cardinality(UnknownRecords("stats"))
        /\ (i_result.kind = "returned" /\ i_injuries # <<>>) =>
              \A i \in UnknownRecords("injuries") :
                  \E j \in DOMAIN i_result.not_found :
                      i_result.not_found[j] = i_injuries[i].name

\* a real run of all four phases has ended; the schedule named a game, a box
\* score a player, the team figures a team and the injury page a player the
\* store does not hold
C18_Witness ==
    /\ m_pc = "exit0"
    /\ ~m_args.dry_run
    /\ m_trace = Phases
    /\ \A k \in DOMAIN Phases : UnknownRecords(Phases[k]) # {}
    /\ ts_result.kind = "returned" /\ ts_result.updated_count = 1
    /\ i_result.kind = "returned" /\ i_result.not_found # <<>>

----------------------------------------------------------------------------
(* calculate_ttfl_score *)

\* the count a field stands for: a missing field and None count as 0
Field(box_score, key) ==
    IF key \in DOMAIN box_score /\ box_score[key] # NoScore
    THEN box_score[key] ELSE 0

\* (PTS+REB+AST+STL+BLK+FGM+FG3M+FTM) - (TOV + (FGA-FGM) + (FG3A-FG3M) + (FTA-FTM))
Formula(b) ==
    (Field(b, "PTS") + Field(b, "REB") + Field(b, "AST") + Field(b, "STL")
       + Field(b, "BLK") + Field(b, "FGM") + Field(b, "FG3M") + Field(b, "FTM"))
    - (Field(b, "TOV") + (Field(b, "FGA") - Field(b, "FGM"))
       + (Field(b, "FG3A") - Field(b, "FG3M"))
       + (Field(b, "FTA") - Field(b, "FTM")))

\* C19: for a line whose twelve fields are each a non-negative integer,
\* missing or None, calculate_ttfl_score returns the makes and counting
\* stats minus the turnovers and misses, a missing field and None counted as
\* 0 and a negative missed count left as it is; for the line of the worked
\* example it returns 49.
C19_ScoreFormula ==
    /\ c_pc \in {"returned", "compared"} =>
          /\ c_score = Formula(c_box)
          /\ c_box = ExampleLine => c_score = 49
    /\ c_pc = "compared" => c_cmp.ttfl_score = Formula(c_cmp.box_score)

\* the call has returned for a line with a field missing, a field None and
\* fewer field goals attempted than made
C19_Witness ==
    /\ c_pc = "returned"
    /\ \E k \in StatKeys : k \notin DOMAIN c_box
    /\ \E k \in DOMAIN c_box : c_box[k] = NoScore
    /\ Field(c_box, "FGA") < Field(c_box, "FGM")
    /\ c_score = Formula(c_box)

\* attempted >= made for each shot type
AttemptsCoverMakes(b) ==
    /\ Field(b, "FGA") >= Field(b, "FGM")
    /\ Field(b, "FG3A") >= Field(b, "FG3M")
    /\ Field(b, "FTA") >= Field(b, "FTM")

\* C20: among lines with attempted >= made for each shot type, a line with
\* points, rebounds, assists, steals, blocks or a made count higher by one
\* never scores lower, and a line with turnovers or an attempted count higher
\* by one never scores higher.
C20_ScoreMonotone ==
    (/\ c_pc = "compared"
     /\ AttemptsCoverMakes(c_box)
     /\ AttemptsCoverMakes(c_cmp.box_score)) =>
        IF c_cmp.key \in {"TOV", "FGA", "FG3A", "FTA"}
        THEN c_cmp.ttfl_score <= c_score
        ELSE c_cmp.ttfl_score >= c_score

\* a made count was raised with attempts still covering makes and the score
\* rose by two
C20_Witness ==
    /\ c_pc = "compared"
    /\ c_cmp.key = "FGM"
    /\ AttemptsCoverMakes(c_box)
    /\ AttemptsCoverMakes(c_cmp.box_score)
    /\ c_cmp.ttfl_score = c_score + 2

\* a stored row of the player that is a played game: it has a score, and
\* minutes that are neither NULL nor 0
HasPlayedGame(d, p) ==
    \E r \in d.scores : /\ r.player_id = p
                        /\ r.ttfl_score # NullScore
                        /\ r.minutes \notin {NoScore, 0}

NoAverages == [avg_ttfl |-> 0, avg_ttfl_l10 |-> 0, avg_ttfl_l30d |-> 0]

\* C21: batch_calculate_averages returns an entry for every requested player
\* id and for no other; a requested player without a played game (no row, or
\* only rows with a NULL score or with minutes NULL or 0) has 0.0 for
\* avg_ttfl, avg_ttfl_l10 and avg_ttfl_l30d.
C21 ==
    a_pc = "returned" =>
        /\ DOMAIN a_result = Elems(a_ids)
        /\ \A p \in Elems(a_ids) :
              ~HasPlayedGame(db, p) => a_result[p] = NoAverages

\* a call for player 1, whose rows all have minutes 0 or NULL, and player 3,
\* who has no row, has returned zeros for both
C21_Witness ==
    /\ a_pc = "returned"
    /\ {1, 3} \subseteq Elems(a_ids)
    /\ \E r \in db.scores : r.player_id = 1 /\ r.minutes = 0
    /\ \E r \in db.scores : r.player_id = 1 /\ r.minutes = NoScore
    /\ ~HasPlayedGame(db, 1)
    /\ ~\E r \in db.scores : r.player_id = 3
    /\ a_result[1] = NoAverages
    /\ a_result[3] = NoAverages

\* the played games of a player: his stored rows with a score and minutes
PlayedGames(d, p) ==
    {r \in d.scores : /\ r.player_id = p
                       /\ r.ttfl_score # NullScore
                       /\ r.minutes \notin {NoScore, 0}}

GameDate(d, r) == d.games[r.game_id].game_date

\* the n most recent of a set of rows: those with fewer than n rows of the
\* set on a later date
MostRecent(d, rows, n) ==
    {r \in rows :
        Cardinality({o \in rows : GameDate(d, o) > GameDate(d, r)}) < n}

RECURSIVE TotalOf(_)
TotalOf(rows) ==
    IF rows = {} THEN 0
    ELSE LET r == CHOOSE x \in rows : TRUE
         IN  r.ttfl_score + TotalOf(rows \ {r})

\* the mean of the scores of a set of rows to one decimal, in tenths
MeanOf(rows) ==
    IF rows = {} THEN 0 ELSE round1(TotalOf(rows), Cardinality(rows))

\* C22: for every requested player, avg_ttfl is the mean over his 15 most
\* recent played games (all of them when he has fewer), avg_ttfl_l10 the mean
\* over his 10 most recent, avg_ttfl_l30d the mean over his played games
\* dated today - 30 days or later; no row of another player enters. With 20
\* played games all inside the 30 days the windows hold 15, 10 and 20 games.
C22 ==
    a_pc = "returned" =>
        \A p \in Elems(a_ids) :
            LET played == PlayedGames(db, p)
                w15 == MostRecent(db, played, Last15)
                w10 == MostRecent(db, played, Last10)
                w30d == {r \in played :
                            GameDate(db, r) >= a_today - CutoffDays}
            IN  /\ a_result[p].avg_ttfl = MeanOf(w15)
                /\ a_result[p].avg_ttfl_l10 = MeanOf(w10)
                /\ a_result[p].avg_ttfl_l30d = MeanOf(w30d)
                /\ (Cardinality(played) = 20 /\ w30d = played) =>
                      /\ Cardinality(w15) = 15
                      /\ Cardinality(w10) = 10
                      /\ Cardinality(w30d) = 20

\* player 1 has 20 played games in the last 30 days, scoring 10 in the latest
\* and 10 more each game into the past, beside the rows of player 2: the
\* averages returned are 80.0, 55.0 and 105.0
C22_Witness ==
    /\ a_pc = "returned"
    /\ 1 \in Elems(a_ids)
    /\ Cardinality(PlayedGames(db, 1)) = 20
    /\ \A r \in PlayedGames(db, 1) :
          /\ GameDate(db, r) >= a_today - CutoffDays
          /\ r.ttfl_score = 10 * r.game_id
    /\ \E r \in db.scores : r.player_id = 2
    /\ a_result[1] = [avg_ttfl |-> 800, avg_ttfl_l10 |-> 550,
                       avg_ttfl_l30d |-> 1050]

\* the pairs of stored players with one normalized name on different teams,
\* of which the list has a record for the first's team and none for the
\* second's
HomonymPairs ==
    {pq \in (DOMAIN i_pre) \X (DOMAIN i_pre) :
        LET k1 == PlayerKeys(db, i_pre[pq[1]])
            k2 == PlayerKeys(db, i_pre[pq[2]])
        IN  /\ pq[1] # pq[2]
            /\ k1.name = k2.name
            /\ i_pre[pq[1]].team_id # i_pre[pq[2]].team_id
            /\ \E i \in DOMAIN i_injuries :
                  InjuryKey(i_injuries[i]) = <<k1.name, k1.team>>
            /\ \A i \in DOMAIN i_injuries :
                  InjuryKey(i_injuries[i]) # <<k2.name, k2.team>>}

\* C24: when two stored players have the same normalized name on different
\* teams and the list has a record with that name for one team only, a run
\* sets the injury fields on that team's player only: the homonym on the
\* other team is left without an injury.
C24_HomonymOnOtherTeamUntouched ==
    (InjuryRunOver /\ i_result.kind = "returned") =>
        \A pq \in HomonymPairs :
            /\ db.players[pq[2]].injury_status = NoneStr
            /\ db.players[pq[2]].injury_return_date = NoneStr

-----------------------------------------------------------------------------
(* Claims about the status update *)

\* a run of update_game_statuses without dry_run has returned after a fetch
\* that gave a frame with rows
StatusRunOver ==
    /\ m_pc # "off"
    /\ g_result.kind = "returned"
    /\ ~g_acc.dry_run
    /\ g_acc.fetch = "data"

\* the rows of the schedule frame for a stored game
RecordsOf(game) ==
    {g_acc.rows[i] : i \in {j \in DOMAIN g_acc.rows :
                                g_acc.rows[j].gameId = game.nba_game_id}}

\* C23: after a run without dry_run whose fetch succeeded, every game that was
\* stored non-final before the run and has an external record has the
\* external status and, when that status is final, the external scores; a
\* non-final game without an external record is as it was.
C23 ==
    StatusRunOver =>
        \A gid \in DOMAIN m_db0.games :
            m_db0.games[gid].status # "final" =>
                IF RecordsOf(m_db0.games[gid]) = {}
                THEN db.games[gid] = m_db0.games[gid]
                ELSE \A rec \in RecordsOf(m_db0.games[gid]) :
                        /\ db.games[gid].status = ScheduleInfo(rec).status
                        /\ rec.gameStatus = 3 =>
                              /\ db.games[gid].home_score = rec.homeTeam_score
                              /\ db.games[gid].away_score = rec.awayTeam_score

\* game 2, stored without scores and not final, was reported final 110-105
\* and is stored so
C23_Witness ==
    /\ StatusRunOver
    /\ m_db0.games[2].status # "final"
    /\ m_db0.games[2].home_score = NoScore
    /\ \E rec \in RecordsOf(m_db0.games[2]) :
          rec.gameStatus = 3 /\ rec.homeTeam_score = 110
    /\ db.games[2].status = "final"
    /\ db.games[2].home_score = 110
    /\ db.games[2].away_score = 105

\* a run without dry_run has returned; the frame had a row with status 1
\* (scheduled) for a game that was stored final before the run
StaleRecordForFinal(gid) ==
    /\ StatusRunOver
    /\ gid \in DOMAIN m_db0.games
    /\ m_db0.games[gid].status = "final"
    /\ \E rec \in RecordsOf(m_db0.games[gid]) : rec.gameStatus = 1

\* C25, as stated: a run that receives a stale record with status scheduled
\* for a game stored final reverts the game to scheduled.
C25_StaleRecordRevertsFinal ==
    \A gid \in DOMAIN db.games :
        StaleRecordForFinal(gid) => db.games[gid].status = "scheduled"

\* C25, amended: a run that receives a stale record with status scheduled for
\* a game stored final leaves the game as it was stored, final with its
\* scores: the games the run updates are those stored non-final.
C25_StaleRecordLeavesFinal ==
    \A gid \in DOMAIN db.games :
        StaleRecordForFinal(gid) => db.games[gid] = m_db0.games[gid]

\* game 1, stored final 100-90, was reported scheduled beside game 2, which
\* the same run stored as final; game 1 is still final 100-90
C25_Witness ==
    /\ StaleRecordForFinal(1)
    /\ db.games[1].status = "final"
    /\ db.games[1].home_score = 100
    /\ db.games[2].status = "final"
    /\ m_db0.games[2].status # "final"

-----------------------------------------------------------------------------
(* Claims about the score backfill under interruption and over time *)

\* the columns of a stored score, without its key
Columns(r) ==
    [player_id |-> r.player_id, game_id |-> r.game_id,
     ttfl_score |-> r.ttfl_score, minutes |-> r.minutes]

\* What a single run of the backfill that is not stopped stores when it starts
\* without any score and the provider holds `box` and `logs`: a row per box
\* score line of a stored player, for the final season games that have lines;
\* for the others a row per active player of their teams and game log entry
\* dated as the game.
UninterruptedRun(d, box, logs) ==
    LET needing == {g \in Values(d.games) :
                       g.status = "final" /\ g.game_date >= RegularSeasonStart}
        lines(g) == FetchedRows(box[g.nba_game_id])
        entries(pl) == FetchedRows(logs[pl.nba_player_id])
        failed == {g \in needing : lines(g) = <<>>}
        primary(g) ==
            {[player_id |-> x[2].id, game_id |-> g.id,
              ttfl_score |-> calculate_ttfl_score(lines(g)[x[1]]),
              minutes |-> lines(g)[x[1]].minutes] :
                x \in {y \in (DOMAIN lines(g)) \X Values(d.players) :
                          y[2].nba_player_id = lines(g)[y[1]].nba_player_id}}
        fallback(g) ==
            {[player_id |-> x[2].id, game_id |-> g.id,
              ttfl_score |-> calculate_ttfl_score(entries(x[2])[x[1]]),
              minutes |-> 0] :
                x \in {y \in (1..2) \X Values(d.players) :
                          /\ y[2].is_active
                          /\ y[2].team_id \in {g.home_team_id, g.away_team_id}
                          /\ y[1] \in DOMAIN entries(y[2])
                          /\ strptime(entries(y[2])[y[1]].game_date).ok
                          /\ strptime(entries(y[2])[y[1]].game_date).date
                                = g.game_date}}
    IN  UNION {IF g \in failed THEN fallback(g) ELSE primary(g) : g \in needing}

\* every run so far was without dry_run, and the last one returned
LastRunReturned ==
    /\ b_pc = "idle"
    /\ b_hist # <<>>
    /\ Len(b_hist[Len(b_hist)].ret) = 3
    /\ \A i \in DOMAIN b_hist : ~b_hist[i].dry_run

\* C26: a backfill without dry_run that is interrupted at any point and then
\* re-run over the same external data ends with the same set of TTFLScore
\* rows as a single run that is not interrupted.
C26_InterruptedRunResumes ==
    LastRunReturned =>
        {Columns(r) : r \in db.scores} = UninterruptedRun(db, ext_box, ext_logs)

\* C27: no sync phase deletes a TTFLScore row or changes the ttfl_score or
\* minutes of a stored one: in every step of every run of update_game_statuses,
\* populate_ttfl_scores, update_team_stats and update_player_injuries each
\* stored row stays as it is, so over any sequence of runs the set of rows only
\* grows, also when the provider's data for a stored (player, game) pair has
\* changed.
C27_ScoreRowsOnlyGrow ==
    [][\A r \in db.scores : r \in db'.scores]_vars

\* the game log entries of a player as the provider has them now
EntriesNow(player_id) ==
    IF NbaPlayerId(player_id) \in DOMAIN ext_logs
    THEN Elems(FetchedRows(ext_logs[NbaPlayerId(player_id)]))
    ELSE {}

\* two backfill runs without dry_run have returned, with a status update
\* between them; the first stored a row from a player's game log, the second
\* added rows beside it after the provider's data had changed: the player's
\* log no longer has an entry for the date of the first row's game
C27_Witness ==
    /\ b_pc = "idle"
    /\ Len(b_hist) = 2
    /\ Len(b_hist[1].ret) = 3 /\ Len(b_hist[2].ret) = 3
    /\ ~b_hist[1].dry_run /\ ~b_hist[2].dry_run
    /\ g_run > 0
    /\ b_hist[1].scores # {}
    /\ b_hist[1].scores \subseteq db.scores
    /\ b_hist[1].scores # db.scores
    /\ \E r \in b_hist[1].scores :
          /\ r.minutes = 0
          /\ EntriesNow(r.player_id) # {}
          /\ \A e \in EntriesNow(r.player_id) :
                strptime(e.game_date).date # db.games[r.game_id].game_date

-----------------------------------------------------------------------------
(* Claims about the fallback of the score backfill *)

\* the game was put on games_failed by the run under way
Queued(game) == game \in Elems(bf.games_failed)

\* the provider failed the game's box score or gave no line for it
NoLines(game) ==
    /\ game.nba_game_id \in DOMAIN ext_box
    /\ \/ ext_box[game.nba_game_id].kind = "error"
       \/ ext_box[game.nba_game_id].rows = <<>>

\* the fallback of the run under way looks for the game in the game logs
Attempted(game) == game \in Values(bf.game_lookup)

\* the run under way has a selected game, and the box score loop has passed
\* the first gi - 1 of them; a game is queued iff it was passed without lines
QueuedIffNoLines ==
    b_pc \in {"box", "lines", "logs", "entries", "raised"} =>
        \A i \in DOMAIN bf.games_needing_scores :
            Queued(bf.games_needing_scores[i])
                <=> (i < bf.gi /\ NoLines(bf.games_needing_scores[i]))

\* the phase is left by an exception only when a commit breaks uq_player_game
RaisesForStorageOnly == b_pc = "raised" => ViolatesUnique(db, pending)

\* C28, as stated: a game is queued for the fallback iff its box score fetch
\* raised or returned no lines, so every selected game for which the primary
\* strategy inserted no record is attempted by the fallback; a provider
\* failure never makes the phase raise.
C28_FallbackTakesGamesWithoutRecord ==
    /\ QueuedIffNoLines
    /\ b_pc \in {"logs", "entries"} =>
          \A game \in Elems(bf.games_needing_scores) :
              (~\E r \in db.scores : r.game_id = game.id) => Attempted(game)
    /\ RaisesForStorageOnly

\* C28, amended: a game is queued for the fallback iff its box score fetch
\* raised or returned no lines, and the fallback attempts exactly the queued
\* games; a selected game whose box score has lines is not attempted, also
\* when the primary strategy inserted no record for it. A provider failure
\* never makes the phase raise.
C28_FallbackTakesGamesWithoutLines ==
    /\ QueuedIffNoLines
    /\ b_pc \in {"logs", "entries"} =>
          \A game \in Elems(bf.games_needing_scores) :
              Attempted(game) <=> NoLines(game)
    /\ RaisesForStorageOnly

\* a run without dry_run is in its fallback for a game whose box score
\* request failed, while another selected game, whose box score had one line,
\* of a player the roster does not know, has no record and is not attempted
C28_Witness ==
    /\ b_pc = "logs"
    /\ ~bf.dry_run
    /\ \E g1, g2 \in Elems(bf.games_needing_scores) :
          /\ ext_box[g1.nba_game_id].kind = "error"
          /\ Attempted(g1)
          /\ ext_box[g2.nba_game_id].rows = <<BoxLine(99, 12, StatLineA)>>
          /\ ~Attempted(g2)
          /\ ~\E r \in db.scores : r.game_id = g2.id

\* C29: every row the fallback inserts for a player p and a game g is for a
\* queued (failed) game g whose game_date is the date of the game log entry
\* the row was computed from, with p.team_id the home or the away team of g;
\* a game log entry produces one row at most. Stated of each pass of the loop
\* over a player's entries, whose rows the next commit stores as they are.
C29_FallbackRowMatchesEntry ==
    [][(b_pc = "entries" /\ b_pc' = "entries") =>
          /\ Len(pending') <= Len(pending) + 1
          /\ SubSeq(pending', 1, Len(pending)) = pending
          /\ Len(pending') = Len(pending) + 1 =>
                LET r == pending'[Len(pending')]
                    g == db.games[r.game_id]
                    p == db.players[r.player_id]
                    entry == bf.game_logs[bf.li]
                IN  /\ g \in Elems(bf.games_failed)
                    /\ strptime(entry.game_date).ok
                    /\ g.game_date = strptime(entry.game_date).date
                    /\ p.team_id \in {g.home_team_id, g.away_team_id}
                    /\ p = bf.relevant_players[bf.pj]
                    /\ r.ttfl_score = calculate_ttfl_score(entry)]_vars

\* two games of one date have failed; the fallback has a row for player 2, of
\* team 3, in game 2, which team 3 played, and none for him in game 1
C29_Witness ==
    /\ b_pc = "entries"
    /\ Len(bf.games_failed) = 2
    /\ bf.games_failed[1].game_date = bf.games_failed[2].game_date
    /\ db.players[2].team_id = 3
    /\ \E i \in DOMAIN pending :
          pending[i].player_id = 2 /\ pending[i].game_id = 2
    /\ \A i \in DOMAIN pending : pending[i].game_id # 1

\* C30: a row inserted by the fallback strategy has minutes = 0, keeps it
\* through every later run of populate_ttfl_scores and of populate_minutes, and
\* so never counts in avg_ttfl, avg_ttfl_l10 or avg_ttfl_l30d.
\* The rows of a game whose box score fetch gave no lines come from the
\* fallback pass: a game with rows is never selected again.
InsertedByFallback == {r \in db.scores : NoLines(db.games[r.game_id])}

WithoutFallbackRows(d) == [d EXCEPT !.scores = @ \ InsertedByFallback]

C30_FallbackRowsStayOutOfAverages ==
    /\ [](\A r \in InsertedByFallback : r.minutes = 0)
    /\ [][\A r \in InsertedByFallback : r \in db'.scores]_vars
    /\ [](\A player_ids \in RequestedIds :
            batch_calculate_averages(db, player_ids, a_today)
              = batch_calculate_averages(WithoutFallbackRows(db), player_ids,
                                         a_today))
    /\ [][<<a_pc, a_ids, a_result>>' # <<a_pc, a_ids, a_result>> =>
            a_result' = batch_calculate_averages(WithoutFallbackRows(db),
                                                 a_ids', a_today)]_vars

\* a run of populate_minutes gave minutes to the older row of a player who
\* already had a fallback row, for whose date the provider reports minutes too,
\* and the averages of that player were then computed
C30_Witness ==
    /\ a_pc = "returned"
    /\ a_result = batch_calculate_averages(db, a_ids, a_today)
    /\ \E h \in Elems(b_hist) : \E r \in h.scores \cap InsertedByFallback :
        \E o \in h.scores :
            /\ o.player_id = r.player_id
            /\ o.minutes = NoScore
            /\ \E n \in db.scores :
                  n.id = o.id /\ n.minutes # NoScore /\ n.minutes > 0
            /\ db.players[r.player_id].nba_player_id \in DOMAIN ext_min
            /\ strftime(db.games[r.game_id].game_date)
                  \in DOMAIN fetch_player_minutes(
                          ext_min[db.players[r.player_id].nba_player_id])
            /\ r.player_id \in Elems(a_ids)
            /\ a_result[r.player_id].avg_ttfl # 0

\* C31: a run of update_game_statuses (not dry) that follows a run (not dry)
\* which got the same schedule reports 0 updated games and leaves the status
\* and the scores of every stored game as they are.
\* The step is the fetch of the second run: g_acc and g_result still hold the
\* first run, g_acc' the schedule of the second, and the loop of the second run
\* works on the games stored now.
SameScheduleAgain ==
    /\ g_pc = "idle" /\ g_pc' = "loop"
    /\ g_result.kind = "returned"
    /\ ~g_acc.dry_run /\ ~g_acc'.dry_run
    /\ g_acc.fetch = "data"
    /\ g_acc'.rows = g_acc.rows

C31_SecondStatusRunUpdatesNothing ==
    [][SameScheduleAgain =>
        LET second == StatusLoop(db, ScheduleData(g_acc'.rows, Len(g_acc'.rows)),
                                 g_acc'.dry_run, Len(GamesToUpdate(db)))
        IN  /\ second.updated_count = 0
            /\ second.games = db.games]_vars

\* the second run has returned 0 for a schedule that has game 2 final 110-105,
\* which only an earlier run with that schedule can have stored
C31_Witness ==
    /\ g_run = 2 /\ g_pc = "idle"
    /\ ~g_acc.dry_run
    /\ g_result = [kind |-> "returned", updated_count |-> 0]
    /\ g_acc.rows = <<ScheduleRow(NbaGameId(2), 3, 110, 105)>>
    /\ db.games[2].status = "final"
    /\ db.games[2].home_score = 110 /\ db.games[2].away_score = 105

\* C32: a run of update_player_injuries that follows a run which got the same
\* list, on the players that run stored, reports updated = 0 and cleared = 0
\* and changes no field.
\* The step is the fetch of the second run: i_injuries and i_result still hold
\* the first run, i_injuries' the list of the second, and the loop of the second
\* run works on the players stored now.
SameListAgain ==
    /\ i_pc = "idle" /\ i_pc' = "loop"
    /\ i_result.kind = "returned"
    /\ i_injuries' = i_injuries

C32_SecondInjuryRunChangesNothing ==
    [][SameListAgain =>
        LET second == PlayerLoop(db, i_injuries', Cardinality(DOMAIN db.players))
        IN  /\ second.raised = ""
            /\ second.updated = 0
            /\ second.cleared = 0
            /\ \A p \in DOMAIN db.players : second.objs[p].row = db.players[p]]_vars

\* C33: not_found holds the name of an external record iff the record was
\* applied to no stored player.
\* The record a player is given, as its place in the list: the last record with
\* the player's name and team, else the last record with the player's name;
\* 0 when there is none.
SelectedIndex(d, injuries, player) ==
    LET k == PlayerKeys(d, player)
        precise == {i \in DOMAIN injuries : InjuryKey(injuries[i]) = <<k.name, k.team>>}
        named == {i \in DOMAIN injuries : normalize_name(injuries[i].name) = k.name}
        hits == IF precise # {} THEN precise ELSE named
    IN  IF hits = {} THEN 0 ELSE CHOOSE i \in hits : \A j \in hits : j <= i

AppliedIndexes(d, injuries) ==
    {SelectedIndex(d, injuries, d.players[p]) : p \in DOMAIN d.players} \ {0}

\* the names of the records at the places `keep`, in list order
NamesAt(injuries, keep) ==
    LET idx == SelectSeq([i \in DOMAIN injuries |-> i], LAMBDA i : i \in keep)
    IN  [j \in DOMAIN idx |-> injuries[idx[j]].name]

\* a run over a list has returned its counts
InjuryRunReturned ==
    /\ i_pc = "idle"
    /\ i_result.kind = "returned"
    /\ i_injuries # <<>>

\* as stated: the records applied to no player, and only they
C33_NotFoundIsTheUnappliedRecords ==
    InjuryRunReturned =>
        i_result.not_found
          = NamesAt(i_injuries,
                    DOMAIN i_injuries \ AppliedIndexes(db, i_injuries))

\* C33, amended: not_found holds the names of the records whose (name, team)
\* key is the key of no applied record; a record that shares its key with an
\* applied one is left out with it.
C33_NotFoundIsTheUnmatchedKeys ==
    InjuryRunReturned =>
        i_result.not_found
          = NamesAt(i_injuries,
                    {i \in DOMAIN i_injuries :
                        \A a \in AppliedIndexes(db, i_injuries) :
                            InjuryKey(i_injuries[a]) # InjuryKey(i_injuries[i])})

\* a run has returned with a record applied and another reported
C33_Witness ==
    /\ InjuryRunReturned
    /\ AppliedIndexes(db, i_injuries) # {}
    /\ i_result.not_found # <<>>

\* C34: once runs of update_player_injuries have cleared a player, every stored
\* player without injury_status has no injury_return_date and no
\* injury_details either: the stored row holds None in all three fields.
\* A stored row has the columns of class Player; a field that is no column of
\* it is not stored as None, it is not stored.
StoredAsNone(row, field) == field \in DOMAIN row /\ row[field] = NoneStr

C34_ClearedTogether ==
    (InjuryRunReturned /\ i_result.cleared > 0) =>
        \A p \in DOMAIN db.players :
            StoredAsNone(db.players[p], "injury_status") =>
                /\ StoredAsNone(db.players[p], "injury_return_date")
                /\ StoredAsNone(db.players[p], "injury_details")

\* C35: what a run of update_team_stats (not dry) leaves behind.
\* The run of main() has got through update_team_stats; the stored teams were
\* those of m_db0 when it started, no other phase writes a team.
TeamRunReturned ==
    /\ ts_pc = "idle"
    /\ ts_result.kind = "returned"
    /\ ~ts_acc.dry_run
    /\ m_db0 # <<>>

\* the external records of a stored team, as places in the list
RecordsFor(team) ==
    {i \in DOMAIN ts_acc.rows : ts_acc.rows[i].nba_team_id = team.nba_team_id}

\* the team holds the eleven metrics of a record and the stamp of the run
Refreshed(team, stats) ==
    /\ \A k \in DOMAIN NoMetrics : team[k] = stats[k]
    /\ team.stats_updated_at = Now

\* skipped and counted: a record per team the store does not hold; updated and
\* skipped add up to the number of records
RecordsCounted ==
    /\ ts_acc.not_found_count
         = Cardinality({i \in DOMAIN ts_acc.rows :
                           \A t \in DOMAIN db.teams :
                               db.teams[t].nba_team_id # ts_acc.rows[i].nba_team_id})
    /\ ts_result.updated_count + ts_acc.not_found_count = Len(ts_acc.rows)

\* the fetch raised or returned nothing: 0 is returned and no team is touched
NothingFetched ==
    (ts_acc.fetch = "error" \/ ts_acc.rows = <<>>) =>
        /\ ts_result.updated_count = 0
        /\ db.teams = m_db0.teams

\* as stated: every stored team holds the external values
C35_EveryTeamRefreshed ==
    TeamRunReturned =>
        /\ (ts_acc.fetch = "data" /\ ts_acc.rows # <<>>) =>
              /\ \A t \in DOMAIN db.teams :
                    \E i \in RecordsFor(db.teams[t]) :
                        Refreshed(db.teams[t], ts_acc.rows[i])
              /\ RecordsCounted
        /\ NothingFetched

\* C35, amended: every stored team the fetch returned a record for holds the
\* external values and the stamp; a stored team without a record is as it was
\* before the run.
C35_TeamsWithRecordRefreshed ==
    TeamRunReturned =>
        /\ (ts_acc.fetch = "data" /\ ts_acc.rows # <<>>) =>
              /\ \A t \in DOMAIN db.teams :
                    IF RecordsFor(db.teams[t]) # {}
                    THEN \E i \in RecordsFor(db.teams[t]) :
                            Refreshed(db.teams[t], ts_acc.rows[i])
                    ELSE db.teams[t] = m_db0.teams[t]
              /\ DOMAIN db.teams = DOMAIN m_db0.teams
              /\ RecordsCounted
        /\ NothingFetched

\* a run got a record for the Hawks and one for a team the store does not hold,
\* and none for the Nets
C35_Witness ==
    /\ TeamRunReturned
    /\ ts_result.updated_count = 1 /\ ts_acc.not_found_count = 1
    /\ Refreshed(db.teams[1], TeamStats(NbaTeamId(1), 2))
    /\ RecordsFor(db.teams[2]) = {}

\* C36: main() calls the requested phases in the order status update, score
\* backfill, team figures, injuries, each once at most; all four without an
\* -only flag, else the flagged ones; and a game the status update has turned
\* final is selected by the backfill of the same run.
PhaseRank(phase) ==
    CASE phase = "statuses" -> 1
      [] phase = "scores"   -> 2
      [] phase = "stats"    -> 3
      [] phase = "injuries" -> 4

InOrderOnce(trace) ==
    \A i, j \in DOMAIN trace : i < j => PhaseRank(trace[i]) < PhaseRank(trace[j])

\* the phases the flags of the command line name; all four when there is none
Flagged(args) ==
    IF ~(args.games_only \/ args.scores_only \/ args.stats_only
         \/ args.injuries_only)
    THEN {"statuses", "scores", "stats", "injuries"}
    ELSE {ph \in {"statuses", "scores", "stats", "injuries"} :
            \/ ph = "statuses" /\ args.games_only
            \/ ph = "scores" /\ args.scores_only
            \/ ph = "stats" /\ args.stats_only
            \/ ph = "injuries" /\ args.injuries_only}

\* the stored games that were not final when main() started and are final now
TurnedFinal ==
    {g \in DOMAIN db.games :
        m_db0.games[g].status # "final" /\ db.games[g].status = "final"}

\* the step on which the backfill called by main() queries the games
BackfillQueries == m_pc = "scores" /\ b_run' = b_run + 1

\* the games that query selects
SelectedByQuery ==
    IF b_pc' = "box"
    THEN {bf'.games_needing_scores[i].id : i \in DOMAIN bf'.games_needing_scores}
    ELSE {}

\* as stated: whenever main() has ended every requested phase was called, and
\* every game turned final is selected
C36_AllRequestedPhasesRun ==
    /\ [](m_pc # "off" => InOrderOnce(m_trace))
    /\ [](m_pc \in {"exit0", "exit1"} => Elems(m_trace) = Flagged(m_args))
    /\ [][BackfillQueries => TurnedFinal \subseteq SelectedByQuery]_vars

\* C36, amended: the phases called are requested ones, in order and once; a
\* run that no exception ends has called all of them; and a game of the regular
\* season without score rows that the status update has turned final is
\* selected by the backfill of the same run.
C36_PhasesInOrderUnlessAborted ==
    /\ [](m_pc # "off" =>
            /\ InOrderOnce(m_trace)
            /\ Elems(m_trace) \subseteq Flagged(m_args))
    /\ [](m_pc = "exit0" => Elems(m_trace) = Flagged(m_args))
    /\ [][BackfillQueries =>
            {g \in TurnedFinal :
                /\ db.games[g].game_date >= RegularSeasonStart
                /\ \A r \in db.scores : r.game_id # g} \subseteq SelectedByQuery]_vars

\* the backfill of a full run works on game 2, which the status update of
\* the run has just turned final
C36_Witness ==
    /\ m_pc = "scores" /\ b_pc = "box"
    /\ RunAll(m_args) /\ ~m_args.dry_run
    /\ m_trace = <<"statuses", "scores">>
    /\ 2 \in TurnedFinal
    /\ \E i \in DOMAIN bf.games_needing_scores : bf.games_needing_scores[i].id = 2

\* C37: the administrative refresh answers its caller: status 'error' with the
\* failure's message when load_schedule raised, status 'success' with the
\* sizes of the indexes just loaded when it returned.
\* every game of the index, as (date, place in the date's list)
GamesIndexed(c) ==
    UNION {{<<d, i>> : i \in DOMAIN c.games_by_date[d]} : d \in DOMAIN c.games_by_date}

RefreshOver == caller = "refresh" /\ lpc = "idle"

C37_RefreshAnswersCaller ==
    RefreshOver =>
        /\ outcome \in {"ok", "raised", "none"}
        /\ outcome = "raised" =>
              /\ response.status = "error"
              /\ response.message \in {"teams", "games", "players"}
        /\ outcome = "ok" =>
              /\ response.status = "success"
              /\ response.games_count = Cardinality(GamesIndexed(app_cache))
              /\ response.dates_count = Cardinality(DOMAIN app_cache.games_by_date)
              /\ response.teams_count = Cardinality(DOMAIN app_cache.teams_by_id)
              /\ response.players_count = Cardinality(DOMAIN app_cache.players_by_id)

\* a refresh has replaced the indexes and answered with their sizes, two
\* games on one date among them
C37_Witness ==
    /\ RefreshOver
    /\ outcome = "ok"
    /\ app_cache # pre
    /\ response.games_count > response.dates_count

\* the three averages of one player as the per-player functions compute them
PerPlayerAverages(d, p, today, tie) ==
    [avg_ttfl |-> calculate_player_avg_ttfl(d, p, Last15, tie),
     avg_ttfl_l10 |-> calculate_player_avg_ttfl(d, p, Last10, tie),
     avg_ttfl_l30d |-> calculate_player_avg_ttfl_last_days(d, p, CutoffDays,
                                                           today)]

\* the batch computation agrees with the per-player computations and with its
\* copy, over every stored history, games of one date included
C38_BatchAgreesWithPerPlayer ==
    /\ a_pc = "returned" =>
          \A p \in Elems(a_ids), tie \in TieOrders :
              a_result[p] = PerPlayerAverages(db, p, a_today, tie)
    /\ a_pc = "player" =>
          \A p \in Elems(a_ids) :
              a_result[p] = batch_calculate_averages(db, <<p>>, a_today)[p]
    /\ a_pc = "router" =>
          a_result = batch_calculate_averages(db, a_ids, a_today)

\* the window of the n latest played games of a player ends between two
\* games of one date: which of them is among the first n rows is the
\* database's choice, query by query
SplitsADate(d, p, n) ==
    Cardinality(MostRecent(d, PlayedGames(d, p), n)) > n

\* two results for a player agree wherever the rows averaged are decided by
\* the dates
AgreeOn(x, y, d, p) ==
    /\ ~SplitsADate(d, p, Last15) => x.avg_ttfl = y.avg_ttfl
    /\ ~SplitsADate(d, p, Last10) => x.avg_ttfl_l10 = y.avg_ttfl_l10
    /\ x.avg_ttfl_l30d = y.avg_ttfl_l30d

\* C38: for every player and every stored history the batch computation, its
\* copy in routers/players.py and the per-player computations return the same
\* avg_ttfl_l30d, and the same avg_ttfl (avg_ttfl_l10) unless the window of
\* the 15 (10) latest played games ends between two of the player's games of
\* one date; the copy has an entry for the same players as the original.
C38_AgreeWhereDatesDecide ==
    /\ a_pc = "returned" =>
          \A p \in Elems(a_ids), tie \in TieOrders :
              AgreeOn(a_result[p], PerPlayerAverages(db, p, a_today, tie),
                      db, p)
    /\ a_pc = "player" =>
          \A p \in Elems(a_ids) :
              AgreeOn(a_result[p],
                      batch_calculate_averages(db, <<p>>, a_today)[p], db, p)
    /\ a_pc = "router" =>
          /\ DOMAIN a_result
                = DOMAIN batch_calculate_averages(db, a_ids, a_today)
          /\ \A p \in Elems(a_ids) :
                AgreeOn(a_result[p],
                        batch_calculate_averages(db, a_ids, a_today)[p],
                        db, p)

\* the per-player functions have averaged player 1, who has more than 15
\* played games, two to a date: the window of 10 ends between two dates and
\* the average over it is the batch's, the window of 15 ends inside a date
C38_Witness ==
    /\ a_pc = "player"
    /\ a_ids = <<1>>
    /\ Cardinality(PlayedGames(db, 1)) > Last15
    /\ \E r \in PlayedGames(db, 1), o \in PlayedGames(db, 1) :
          r # o /\ GameDate(db, r) = GameDate(db, o)
    /\ ~SplitsADate(db, 1, Last10)
    /\ SplitsADate(db, 1, Last15)
    /\ a_result[1].avg_ttfl_l10 # 0
    /\ a_result[1].avg_ttfl_l10
          = batch_calculate_averages(db, <<1>>, a_today)[1].avg_ttfl_l10

====
